---- MODULE Spec2Model ----
(***************************************************************************)
(* Model of the command-argument parser of redismodule-commander           *)
(* (src/lib/src/lib.rs): the schema built by Command::new / add_arg and    *)
(* the token-stream resolver Command::parse_args with its parse_arg!       *)
(* macro.  One invocation of parse_args is followed step by step: the      *)
(* command-name check, one action per iteration of the scan loop, and the  *)
(* post-scan completeness check.                                           *)
(*                                                                         *)
(* Tokens and names are sequences of one-character strings, so that        *)
(* to_lowercase and the numeric parsers are computed, not assumed.         *)
(***************************************************************************)
EXTENDS Naturals, Integers, Sequences, FiniteSets, TLC

VARIABLES
    name,            \* Command.name
    required_args,   \* Command.required_args : Vec<Arg>
    optional_args,   \* Command.optional_args : Vec<Arg>
    kwargs,          \* Command.kwargs : HashMap<&str, Arg>
    pc,              \* "build" | "scan" | "check" | "done"
    raw_args,        \* the token vector handed to parse_args
    pos,             \* number of tokens the iterator has yielded
    res,             \* the result map under construction
    required_pos,    \* local cursor into required_args
    optional_pos,    \* local cursor into optional_args
    do_optional,     \* the optional-positional latch
    ret,             \* what parse_args returned (Pending until it returns)
    work,            \* rounds of the scan loop and of the element loops so far
    kw_added,        \* the Named declarations add_arg was called with, in order
    parked,          \* pc and locals of a second invocation that is not running
    value,           \* a Box<dyn Value> a caller narrows
    narrowed,        \* what the accessor called on it returned
    lhs,             \* a Command under construction, with the add_arg calls made on it
    rhs,             \* a second Command, likewise
    eq               \* what lhs == rhs returned (None until compared)

schema == <<name, required_args, optional_args, kwargs>>
locals == <<raw_args, pos, res, required_pos, optional_pos, do_optional, ret, work>>
compared == <<lhs, rhs, eq>>
client == <<parked, value, narrowed, lhs, rhs, eq>>
vars == <<name, required_args, optional_args, kwargs, pc, raw_args, pos, res,
          required_pos, optional_pos, do_optional, ret, work, kw_added, parked,
          value, narrowed, lhs, rhs, eq>>

-----------------------------------------------------------------------------
(* Bounds of the model *)

\* add_arg calls on one schema
MaxArgs == 3

\* tokens that follow the first token of an input
MaxArgTokens == 3

-----------------------------------------------------------------------------
(* Characters, tokens, names *)

T_cmd == <<"c", "m", "d">>
T_CMD == <<"C", "M", "D">>
T_Cmd == <<"C", "m", "d">>
T_kw == <<"k", "w">>
T_KW == <<"K", "W">>
T_x == <<"x">>
T_0 == <<"0">>
T_1 == <<"1">>
T_2 == <<"2">>
\* 2^63 in decimal: a u64, no i64, an f64 without rounding
T_big == <<"9", "2", "2", "3", "3", "7", "2", "0", "3", "6",
           "8", "5", "4", "7", "7", "5", "8", "0", "8">>
N_a == <<"a">>
N_v == <<"v">>
N_o == <<"o">>

\* names a schema is created with
SchemaNames == {T_cmd, T_Cmd}

\* first tokens of an input, and the tokens that may follow (a token is
\* lowercased before it is compared, so the upper-case spellings cover the
\* lower-case ones)
FirstTokens == {T_cmd, T_CMD, T_x}
ArgTokens == {T_KW, T_x, T_0, T_1, T_2, T_big}

RECURSIVE SeqsUpTo(_, _)
SeqsUpTo(S, n) ==
    IF n = 0 THEN {<<>>}
    ELSE LET shorter == SeqsUpTo(S, n - 1)
         IN  shorter \cup {Append(s, t) : s \in {q \in shorter : Len(q) = n - 1}, t \in S}

\* the inputs of parse_args: the empty vector, or a first token and up to
\* MaxArgTokens further tokens
TokenSeqs ==
    {<<>>} \cup {<<f>> \o r : f \in FirstTokens, r \in SeqsUpTo(ArgTokens, MaxArgTokens)}

\* str::to_lowercase on the letters the tokens are made of
LowerChar(c) ==
    CASE c = "C" -> "c"
      [] c = "M" -> "m"
      [] c = "D" -> "d"
      [] c = "K" -> "k"
      [] c = "W" -> "w"
      [] OTHER -> c

ToLowercase(s) == [i \in 1..Len(s) |-> LowerChar(s[i])]

-----------------------------------------------------------------------------
(* Type tags, values, errors *)

\* std::any::type_name of the four supported scalar types
TN_STRING == "alloc::string::String"
TN_U64 == "u64"
TN_I64 == "i64"
TN_F64 == "f64"
TN_VEC == "alloc::vec::Vec<alloc::boxed::Box<dyn Value>>"

\* a Box<dyn Value>: the concrete type it holds, and the payload
Val(t, v) == [t |-> t, v |-> v]
NoVal == Val("", <<>>)

\* RedisError values and the Ok / not-yet-returned outcomes
Outcome(tag, a, b) == [tag |-> tag, a |-> a, b |-> b]
Pending == Outcome("Pending", <<>>, <<>>)
OkRet == Outcome("Ok", <<>>, <<>>)
WrongArity == Outcome("WrongArity", <<>>, <<>>)
ErrExpected(n, tok) == Outcome("Expected", n, tok)
ErrUnexpected(tok) == Outcome("Unexpected", tok, <<>>)
ErrRequired(n) == Outcome("Required", n, <<>>)
ErrUnsupported(tn) == Outcome("Unsupported", <<tn>>, <<>>)
ErrInvalidNumber(tok) == Outcome("InvalidNumber", tok, <<>>)

\* parse_arg! did not come back: a panic unwinds out of parse_args
Panicked == Outcome("Panic", <<>>, <<>>)

-----------------------------------------------------------------------------
(* Numeric parsers of the redis_module crate *)

\* A number is carried as its canonical decimal numeral (no sign for zero and
\* above, no leading zeros), which holds every u64, i64 and integral f64.

Digits == {"0", "1", "2", "3", "4", "5", "6", "7", "8", "9"}

DigitVal(c) ==
    CASE c = "0" -> 0 [] c = "1" -> 1 [] c = "2" -> 2 [] c = "3" -> 3
      [] c = "4" -> 4 [] c = "5" -> 5 [] c = "6" -> 6 [] c = "7" -> 7
      [] c = "8" -> 8 [] c = "9" -> 9

RECURSIVE DecVal(_)
DecVal(s) ==
    IF s = <<>> THEN 0
    ELSE 10 * DecVal(SubSeq(s, 1, Len(s) - 1)) + DigitVal(s[Len(s)])

AllDigits(s) == Len(s) > 0 /\ \A i \in 1..Len(s) : s[i] \in Digits

\* the digits without leading zeros
RECURSIVE Canon(_)
Canon(s) == IF Len(s) > 1 /\ s[1] = "0" THEN Canon(Tail(s)) ELSE s

\* a <= b, for canonical numerals of numbers that are not negative
DecLeq(a, b) ==
    \/ Len(a) < Len(b)
    \/ /\ Len(a) = Len(b)
       /\ \/ a = b
          \/ \E i \in 1..Len(a) :
                /\ DigitVal(a[i]) < DigitVal(b[i])
                /\ \A j \in 1..(i - 1) : a[j] = b[j]

\* u64::MAX, i64::MAX and -i64::MIN
U64_MAX == <<"1", "8", "4", "4", "6", "7", "4", "4", "0", "7",
             "3", "7", "0", "9", "5", "5", "1", "6", "1", "5">>
I64_MAX == <<"9", "2", "2", "3", "3", "7", "2", "0", "3", "6",
             "8", "5", "4", "7", "7", "5", "8", "0", "7">>
I64_MIN_MAGNITUDE == T_big

\* an optional sign and decimal digits: the sign and the canonical magnitude
SignedLit(tok) ==
    IF AllDigits(tok) THEN [ok |-> TRUE, neg |-> FALSE, mag |-> Canon(tok)]
    ELSE IF Len(tok) > 1 /\ tok[1] \in {"-", "+"} /\ AllDigits(Tail(tok))
         THEN [ok |-> TRUE, neg |-> tok[1] = "-", mag |-> Canon(Tail(tok))]
    ELSE [ok |-> FALSE, neg |-> FALSE, mag |-> <<"0">>]

\* the numeral of the number with that sign and magnitude
Numeral(neg, mag) == IF neg /\ mag # <<"0">> THEN <<"-">> \o mag ELSE mag

\* parse_unsigned_integer: decimal digits only, up to u64::MAX
ParseUnsigned(tok) ==
    IF AllDigits(tok) /\ DecLeq(Canon(tok), U64_MAX) THEN [ok |-> TRUE, v |-> Canon(tok)]
    ELSE [ok |-> FALSE, v |-> <<"0">>]

\* parse_integer: an optional sign, then decimal digits, within i64
ParseInteger(tok) ==
    LET l == SignedLit(tok)
    IN  IF l.ok /\ DecLeq(l.mag, IF l.neg THEN I64_MIN_MAGNITUDE ELSE I64_MAX)
        THEN [ok |-> TRUE, v |-> Numeral(l.neg, l.mag)]
        ELSE [ok |-> FALSE, v |-> <<"0">>]

\* parse_float, on literals without fraction or exponent (the tokens of the
\* model hold none, and each denotes an integer an f64 holds exactly)
ParseFloat(tok) ==
    LET l == SignedLit(tok)
    IN  IF l.ok THEN [ok |-> TRUE, v |-> Numeral(l.neg, l.mag)]
        ELSE [ok |-> FALSE, v |-> <<"0">>]

-----------------------------------------------------------------------------
(* Declarations *)

\* Arg::new; an Option is a sequence of length 0 (None) or 1 (Some)
Arg(arg, arg_type, type_name, kind, default) ==
    [arg |-> arg, arg_type |-> arg_type, type_name |-> type_name, kind |-> kind,
     default |-> default]

None == <<>>
Some(v) == <<v>>

\* the declarations add_arg is called with
Decls ==
    { Arg(N_a, "Arg", TN_STRING, "Unit", None),
      Arg(N_v, "Arg", TN_U64, "Vec", None),
      Arg(N_o, "Arg", TN_STRING, "Unit", Some(Val(TN_STRING, <<"d">>))),
      Arg(T_kw, "Arg", TN_F64, "Unit", Some(Val(TN_F64, <<"1">>))),
      Arg(T_kw, "Kwarg", TN_STRING, "Unit", None),
      Arg(T_kw, "Kwarg", TN_I64, "Vec", Some(Val(TN_VEC, <<Val(TN_I64, <<"-", "1">>)>>))),
      Arg(T_KW, "Kwarg", TN_STRING, "Unit", None) }

-----------------------------------------------------------------------------
(* HashMap helpers *)

EmptyMap == <<>>

\* Insert with a key already present keeping its value
Insert_KeepFirst(m, k, v) == [x \in (DOMAIN m) \cup {k} |-> IF x \in DOMAIN m THEN m[x] ELSE v]

\* HashMap::insert: a later insertion under the same key overwrites
Insert(m, k, v) == [x \in (DOMAIN m) \cup {k} |-> IF x = k THEN v ELSE m[x]]

\* HashMap::contains_key
ContainsKey(m, k) == k \in DOMAIN m

-----------------------------------------------------------------------------
(* The parse_arg! macro *)

\* what one expansion of parse_arg! yields: the outcome (OkRet, or the error
\* it returns from parse_args with), the boxed value, and the iterator position
Parsed(r, val, p) == [r |-> r, val |-> val, pos |-> p]

\* the match on arg.type_name, for one token
ParseScalar(type_name, tok, p) ==
    IF type_name = TN_STRING THEN Parsed(OkRet, Val(TN_STRING, tok), p)
    ELSE IF type_name = TN_U64 THEN
        LET n == ParseUnsigned(tok)
        IN  IF n.ok THEN Parsed(OkRet, Val(TN_U64, n.v), p)
            ELSE Parsed(ErrInvalidNumber(tok), NoVal, p)
    ELSE IF type_name = TN_I64 THEN
        LET n == ParseInteger(tok)
        IN  IF n.ok THEN Parsed(OkRet, Val(TN_I64, n.v), p)
            ELSE Parsed(ErrInvalidNumber(tok), NoVal, p)
    ELSE IF type_name = TN_F64 THEN
        LET n == ParseFloat(tok)
        IN  IF n.ok THEN Parsed(OkRet, Val(TN_F64, n.v), p)
            ELSE Parsed(ErrInvalidNumber(tok), NoVal, p)
    ELSE Parsed(ErrUnsupported(type_name), NoVal, p)

RECURSIVE ParseVecElems_KeywordEnds(_, _, _, _, _)
\* ParseVecElems with a token that names a keyword ending the elements
ParseVecElems_KeywordEnds(arg, toks, p, n, acc) ==
    IF n = 0 THEN Parsed(OkRet, Val(TN_VEC, acc), p)
    ELSE IF p >= Len(toks) THEN Parsed(WrongArity, NoVal, p)
    ELSE IF ToLowercase(toks[p + 1]) \in DOMAIN kwargs THEN Parsed(WrongArity, NoVal, p)
    ELSE LET e == ParseScalar(arg.type_name, toks[p + 1], p + 1)
         IN  IF e.r # OkRet THEN e
             ELSE ParseVecElems_KeywordEnds(arg, toks, p + 1, n - 1, Append(acc, e.val))

\* the loop `for _ in 0..len`: n elements still to read, acc the vector so far
RECURSIVE ParseVecElems(_, _, _, _, _)
ParseVecElems(arg, toks, p, n, acc) ==
    IF n = 0 THEN Parsed(OkRet, Val(TN_VEC, acc), p)
    ELSE IF p >= Len(toks) THEN Parsed(WrongArity, NoVal, p)
    ELSE LET e == ParseScalar(arg.type_name, toks[p + 1], p + 1)
         IN  IF e.r # OkRet THEN e
             ELSE ParseVecElems(arg, toks, p + 1, n - 1, Append(acc, e.val))

\* the largest capacity a Vec<Box<dyn Value>> can be created with on a 64-bit
\* target: isize::MAX / 16 elements, a boxed trait object being 16 bytes wide
MAX_CAPACITY == <<"5", "7", "6", "4", "6", "0", "7", "5", "2",
                  "3", "0", "3", "4", "2", "3", "4", "8", "7">>

\* Vec::with_capacity(len) returns; beyond the limit it panics with
\* "capacity overflow"
WithCapacity(len) == DecLeq(len, MAX_CAPACITY)

\* how often the body of `for _ in 0..len` can be entered: a stream of n tokens
\* ends the loop after n + 1 rounds at the latest, whatever len is
LoopCount(len, n) == IF Len(len) > 9 THEN n + 1 ELSE DecVal(len)

\* parse_arg!(arg, next_arg, raw_args): next_arg is the token already taken
\* from the iterator, p the iterator position after it
ParseArg(arg, next_arg, toks, p) ==
    IF arg.kind = "Unit" THEN ParseScalar(arg.type_name, next_arg, p)
    ELSE LET len == ParseUnsigned(next_arg)
         IN  IF ~len.ok THEN Parsed(ErrInvalidNumber(next_arg), NoVal, p)
             ELSE IF ~WithCapacity(len.v) THEN Parsed(Panicked, NoVal, p)
             ELSE ParseVecElems(arg, toks, p, LoopCount(len.v, Len(toks)), <<>>)

-----------------------------------------------------------------------------
(* Schema construction *)

\* pc and locals of an invocation of parse_args that has not begun
NotStarted ==
    [pc |-> "build", raw_args |-> <<>>, pos |-> 0, res |-> EmptyMap, required_pos |-> 0,
     optional_pos |-> 0, do_optional |-> TRUE, ret |-> Pending, work |-> 0]

\* Command::new(name, desc)
New(n, d) ==
    [name |-> n, desc |-> d, required_args |-> <<>>, optional_args |-> <<>>,
     kwargs |-> EmptyMap]

\* a Command as Command::new leaves it, no add_arg call made on it
Unbuilt == [cmd |-> New(T_cmd, "foo"), added |-> <<>>]

\* no accessor has been called
NotNarrowed == [acc |-> "", ok |-> FALSE, v |-> <<>>, err |-> Pending, seen |-> 0]

\* Command::new
Init ==
    /\ name \in SchemaNames
    /\ required_args = <<>>
    /\ optional_args = <<>>
    /\ kwargs = EmptyMap
    /\ pc = "build"
    /\ raw_args = <<>>
    /\ pos = 0
    /\ res = EmptyMap
    /\ required_pos = 0
    /\ optional_pos = 0
    /\ do_optional = TRUE
    /\ ret = Pending
    /\ work = 0
    /\ kw_added = <<>>
    /\ parked = NotStarted
    /\ value = NoVal
    /\ narrowed = NotNarrowed
    /\ lhs = Unbuilt
    /\ rhs = Unbuilt
    /\ eq = None

\* declarations the schema holds
SchemaSize == Len(required_args) + Len(optional_args) + Cardinality(DOMAIN kwargs)

\* add_arg calls made on the schema
Calls == Len(required_args) + Len(optional_args) + Len(kw_added)

\* AddArg with every Positional declaration appended to the required list
AddArg_DefaultIgnored(arg) ==
    /\ pc = "build"
    /\ Calls < MaxArgs
    /\ IF arg.arg_type = "Arg"
       THEN /\ required_args' = Append(required_args, arg)
            /\ UNCHANGED <<optional_args, kwargs, kw_added>>
       ELSE /\ kwargs' = Insert(kwargs, arg.arg, arg)
            /\ kw_added' = Append(kw_added, arg)
            /\ UNCHANGED <<required_args, optional_args>>
    /\ UNCHANGED <<name, pc>>
    /\ UNCHANGED locals
    /\ UNCHANGED client

\* Command::add_arg
AddArg(arg) ==
    /\ pc = "build"
    /\ Calls < MaxArgs
    /\ IF arg.arg_type = "Arg"
       THEN IF arg.default = None
            THEN /\ required_args' = Append(required_args, arg)
                 /\ UNCHANGED <<optional_args, kwargs, kw_added>>
            ELSE /\ optional_args' = Append(optional_args, arg)
                 /\ UNCHANGED <<required_args, kwargs, kw_added>>
       ELSE /\ kwargs' = Insert(kwargs, arg.arg, arg)
            /\ kw_added' = Append(kw_added, arg)
            /\ UNCHANGED <<required_args, optional_args>>
    /\ UNCHANGED <<name, pc>>
    /\ UNCHANGED locals
    /\ UNCHANGED client

-----------------------------------------------------------------------------
(* Command::parse_args *)

\* entry of parse_args: the command-name check and the initial locals
ParseBegin(toks) ==
    /\ pc = "build"
    /\ raw_args' = toks
    /\ res' = EmptyMap
    /\ required_pos' = 0
    /\ optional_pos' = 0
    /\ do_optional' = TRUE
    /\ work' = 0
    /\ IF toks = <<>>
       THEN /\ pos' = 0
            /\ ret' = WrongArity
            /\ pc' = "done"
       ELSE /\ pos' = 1
            /\ IF ToLowercase(toks[1]) # name
               THEN /\ ret' = ErrExpected(name, toks[1])
                    /\ pc' = "done"
               ELSE /\ ret' = Pending
                    /\ pc' = "scan"
    /\ UNCHANGED <<schema, kw_added, client>>

\* rounds of `for _ in 0..len` that one expansion of parse_arg! entered, the
\* iterator standing at start before the first: one per element token taken,
\* and the round whose raw_args.next() found the stream at its end
Rounds(val, start) == (val.pos - start) + (IF val.r = WrongArity THEN 1 ELSE 0)

\* control leaves parse_args from inside the scan loop: an error is returned;
\* a panic unwinds through parse_args, which returns nothing
Leave(r) ==
    /\ pc' = IF r = Panicked THEN "panic" ELSE "done"
    /\ ret' = IF r = Panicked THEN ret ELSE r

\* the scan loop's `raw_args.next()` yields None: the loop ends
ScanEnd ==
    /\ pc = "scan"
    /\ pos >= Len(raw_args)
    /\ pc' = "check"
    /\ UNCHANGED <<schema, locals, kw_added, client>>

\* the token the scan loop takes in this iteration
NextArg == raw_args[pos + 1]

\* HashMap::get on the lowercased token
KwLookup(tok) ==
    IF ContainsKey(kwargs, ToLowercase(tok)) THEN Some(kwargs[ToLowercase(tok)]) ELSE None

\* RequiredBranch with the keyword lookup tried first
RequiredBranch_KeywordFirst == required_pos < Len(required_args) /\ KwLookup(NextArg) = None

\* whether this iteration takes the required-positional branch
RequiredBranch == required_pos < Len(required_args)

\* CurrentRequired counting from the end of the list
CurrentRequired_FromEnd == required_args[Len(required_args) - required_pos]

\* `&self.required_args[required_pos]` (Rust indexes from 0)
CurrentRequired == required_args[required_pos + 1]

\* ScanRequired with a parse error noted and the scan carried on
ScanRequired_Deferred ==
    /\ pc = "scan"
    /\ pos < Len(raw_args)
    /\ RequiredBranch
    /\ LET arg == CurrentRequired
           val == ParseArg(arg, NextArg, raw_args, pos + 1)
       IN  /\ pos' = val.pos
           /\ work' = work + 1 + Rounds(val, pos + 1)
           /\ IF val.r = OkRet
              THEN /\ res' = Insert(res, arg.arg, val.val)
                   /\ required_pos' = required_pos + 1
                   /\ UNCHANGED <<pc, ret>>
              ELSE /\ ret' = val.r
                   /\ required_pos' = required_pos + 1
                   /\ UNCHANGED <<res, pc>>
    /\ UNCHANGED <<schema, raw_args, optional_pos, do_optional, kw_added, client>>

\* a loop iteration that fills the current required positional
ScanRequired ==
    /\ pc = "scan"
    /\ pos < Len(raw_args)
    /\ RequiredBranch
    /\ LET arg == CurrentRequired
           val == ParseArg(arg, NextArg, raw_args, pos + 1)
       IN  /\ pos' = val.pos
           /\ work' = work + 1 + Rounds(val, pos + 1)
           /\ IF val.r = OkRet
              THEN /\ res' = Insert(res, arg.arg, val.val)
                   /\ required_pos' = required_pos + 1
                   /\ UNCHANGED <<pc, ret>>
              ELSE /\ Leave(val.r)
                   /\ UNCHANGED <<res, required_pos>>
    /\ UNCHANGED <<schema, raw_args, optional_pos, do_optional, kw_added, client>>

\* ScanKeyword with the default taken when no value token follows
ScanKeyword_DefaultForNoValue ==
    /\ pc = "scan"
    /\ pos < Len(raw_args)
    /\ ~RequiredBranch
    /\ KwLookup(NextArg) # None
    /\ LET arg == KwLookup(NextArg)[1]
       IN  /\ do_optional' = FALSE
           /\ IF pos + 1 >= Len(raw_args)
              THEN /\ pos' = pos + 1
                   /\ work' = work + 1
                   /\ IF arg.default # None
                      THEN /\ res' = Insert(res, arg.arg, arg.default[1])
                           /\ UNCHANGED <<pc, ret>>
                      ELSE /\ ret' = WrongArity
                           /\ pc' = "done"
                           /\ UNCHANGED res
              ELSE LET val == ParseArg(arg, raw_args[pos + 2], raw_args, pos + 2)
                   IN  /\ pos' = val.pos
                       /\ work' = work + 1 + Rounds(val, pos + 2)
                       /\ IF val.r = OkRet
                          THEN /\ res' = Insert(res, arg.arg, val.val)
                               /\ UNCHANGED <<pc, ret>>
                          ELSE /\ Leave(val.r)
                               /\ UNCHANGED res
    /\ UNCHANGED <<schema, raw_args, required_pos, optional_pos, kw_added, client>>

\* a loop iteration whose token is found in the keyword map
ScanKeyword ==
    /\ pc = "scan"
    /\ pos < Len(raw_args)
    /\ ~RequiredBranch
    /\ KwLookup(NextArg) # None
    /\ LET arg == KwLookup(NextArg)[1]
       IN  /\ do_optional' = FALSE
           /\ IF pos + 1 >= Len(raw_args)
              THEN /\ pos' = pos + 1
                   /\ work' = work + 1
                   /\ ret' = WrongArity
                   /\ pc' = "done"
                   /\ UNCHANGED res
              ELSE LET val == ParseArg(arg, raw_args[pos + 2], raw_args, pos + 2)
                   IN  /\ pos' = val.pos
                       /\ work' = work + 1 + Rounds(val, pos + 2)
                       /\ IF val.r = OkRet
                          THEN /\ res' = Insert(res, arg.arg, val.val)
                               /\ UNCHANGED <<pc, ret>>
                          ELSE /\ Leave(val.r)
                               /\ UNCHANGED res
    /\ UNCHANGED <<schema, raw_args, required_pos, optional_pos, kw_added, client>>

\* OptionalOpen with the latch not consulted
OptionalOpen_NoLatch == optional_pos < Len(optional_args)

\* whether an unmatched token may still fill an optional positional
OptionalOpen == do_optional /\ optional_pos < Len(optional_args)

\* `&self.optional_args[optional_pos]`
CurrentOptional == optional_args[optional_pos + 1]

\* ScanOptional with the token looked at but left in the stream
ScanOptional_PutBack ==
    /\ pc = "scan"
    /\ pos < Len(raw_args)
    /\ ~RequiredBranch
    /\ KwLookup(NextArg) = None
    /\ OptionalOpen
    /\ LET arg == CurrentOptional
           val == ParseArg(arg, NextArg, raw_args, pos + 1)
       IN  /\ pos' = val.pos - 1
           /\ work' = work + 1 + Rounds(val, pos + 1)
           /\ IF val.r = OkRet
              THEN /\ res' = Insert(res, arg.arg, val.val)
                   /\ optional_pos' = optional_pos + 1
                   /\ UNCHANGED <<pc, ret>>
              ELSE /\ Leave(val.r)
                   /\ UNCHANGED <<res, optional_pos>>
    /\ UNCHANGED <<schema, raw_args, required_pos, do_optional, kw_added, client>>

\* a loop iteration that fills the current optional positional
ScanOptional ==
    /\ pc = "scan"
    /\ pos < Len(raw_args)
    /\ ~RequiredBranch
    /\ KwLookup(NextArg) = None
    /\ OptionalOpen
    /\ LET arg == CurrentOptional
           val == ParseArg(arg, NextArg, raw_args, pos + 1)
       IN  /\ pos' = val.pos
           /\ work' = work + 1 + Rounds(val, pos + 1)
           /\ IF val.r = OkRet
              THEN /\ res' = Insert(res, arg.arg, val.val)
                   /\ optional_pos' = optional_pos + 1
                   /\ UNCHANGED <<pc, ret>>
              ELSE /\ Leave(val.r)
                   /\ UNCHANGED <<res, optional_pos>>
    /\ UNCHANGED <<schema, raw_args, required_pos, do_optional, kw_added, client>>

\* ScanUnexpected with the token skipped and the scan carried on
ScanUnexpected_Skipped ==
    /\ pc = "scan"
    /\ pos < Len(raw_args)
    /\ ~RequiredBranch
    /\ KwLookup(NextArg) = None
    /\ ~OptionalOpen
    /\ pos' = pos + 1
    /\ work' = work + 1
    /\ UNCHANGED <<schema, raw_args, res, required_pos, optional_pos, do_optional, pc, ret>>
    /\ UNCHANGED <<kw_added, client>>

\* a loop iteration whose token matches nothing
ScanUnexpected ==
    /\ pc = "scan"
    /\ pos < Len(raw_args)
    /\ ~RequiredBranch
    /\ KwLookup(NextArg) = None
    /\ ~OptionalOpen
    /\ pos' = pos + 1
    /\ work' = work + 1
    /\ ret' = ErrUnexpected(NextArg)
    /\ pc' = "done"
    /\ UNCHANGED <<schema, raw_args, res, required_pos, optional_pos, do_optional>>
    /\ UNCHANGED <<kw_added, client>>

-----------------------------------------------------------------------------
(* The post-scan completeness check *)

Min(S) == CHOOSE x \in S : \A y \in S : x <= y

\* MissingRequired seeing only the last required positional
MissingRequired_LastOnly ==
    {i \in {Len(required_args)} \ {0} : ~ContainsKey(res, required_args[i].arg)}

\* indices of the required positionals whose name the result lacks
MissingRequired == {i \in 1..Len(required_args) : ~ContainsKey(res, required_args[i].arg)}

\* FillOptional with the loop over optional_args left out
FillOptional_Skipped(m) == m

\* the loop over optional_args: a name the result lacks gets the default of
\* the first optional positional declared under it
FillOptional(m) ==
    LET names == {optional_args[i].arg : i \in 1..Len(optional_args)}
        first(n) == Min({i \in 1..Len(optional_args) : optional_args[i].arg = n})
    IN  [x \in (DOMAIN m) \cup names |->
            IF x \in DOMAIN m THEN m[x] ELSE optional_args[first(x)].default[1]]

\* FillKwargs with the default cloned over a value already present
FillKwargs_Overwrite(m, K) ==
    [x \in (DOMAIN m) \cup K |->
        IF x \in DOMAIN kwargs /\ kwargs[x].default # None THEN kwargs[x].default[1] ELSE m[x]]

\* the loop over kwargs, for the keys in K: a key the result lacks gets a
\* clone of its default
FillKwargs(m, K) ==
    [x \in (DOMAIN m) \cup K |-> IF x \in DOMAIN m THEN m[x] ELSE kwargs[x].default[1]]

\* the three loops after the scan, and the return.  A HashMap is iterated in
\* an unspecified order: when several keywords without a default are missing,
\* any of them may be the one the error names, after the defaults of any of
\* the other missing keys have been cloned into the result.
PostScan ==
    /\ pc = "check"
    /\ pc' = "done"
    /\ IF MissingRequired # {}
       THEN /\ ret' = ErrRequired(required_args[Min(MissingRequired)].arg)
            /\ UNCHANGED res
       ELSE LET res1 == FillOptional(res)
                missing == {k \in DOMAIN kwargs : ~ContainsKey(res1, k)}
                nodefault == {k \in missing : kwargs[k].default = None}
            IN  IF nodefault # {}
                THEN \E k \in nodefault, K \in SUBSET (missing \ nodefault) :
                        /\ ret' = ErrRequired(kwargs[k].arg)
                        /\ res' = FillKwargs(res1, K)
                ELSE /\ ret' = OkRet
                     /\ res' = FillKwargs(res1, missing)
    /\ UNCHANGED <<schema, raw_args, pos, required_pos, optional_pos, do_optional, work>>
    /\ UNCHANGED <<kw_added, client>>

-----------------------------------------------------------------------------
(* The specification *)

\* the caller builds the schema, one add_arg call at a time
Build == pc = "build" /\ \E arg \in Decls : AddArg(arg)

\* the caller invokes parse_args on the schema built so far
Call == pc = "build" /\ \E toks \in TokenSeqs : ParseBegin(toks)

Next ==
    \/ Build
    \/ Call
    \/ ScanEnd
    \/ ScanRequired
    \/ ScanKeyword
    \/ ScanOptional
    \/ ScanUnexpected
    \/ PostScan

Spec == Init /\ [][Next]_vars

\* a step of a running invocation of parse_args
Step ==
    \/ ScanEnd
    \/ ScanRequired
    \/ ScanKeyword
    \/ ScanOptional
    \/ ScanUnexpected
    \/ PostScan

\* parse_args is straight-line code on one thread: once called it keeps
\* running
FairSpec == Spec /\ WF_vars(Step)

TypeOK ==
    /\ name \in SchemaNames
    /\ pc \in {"build", "scan", "check", "done", "panic"}
    /\ Len(raw_args) <= MaxArgTokens + 1
    /\ pos \in 0..Len(raw_args)
    /\ required_pos \in 0..Len(required_args)
    /\ optional_pos \in 0..Len(optional_args)
    /\ do_optional \in BOOLEAN
    /\ (pc = "done") = (ret # Pending)
    /\ work \in 0..Len(raw_args)
    /\ Len(kw_added) <= MaxArgs

-----------------------------------------------------------------------------
(* Two invocations of parse_args on one schema                              *)

\* argument tokens of an invocation that runs beside another
MaxConcTokens == 2

ConcArgTokens == {T_KW, T_1}

ConcTokenSeqs == {<<T_cmd>> \o r : r \in SeqsUpTo(ConcArgTokens, MaxConcTokens)}

\* pc and locals of the invocation that is running
Cur ==
    [pc |-> pc, raw_args |-> raw_args, pos |-> pos, res |-> res,
     required_pos |-> required_pos, optional_pos |-> optional_pos,
     do_optional |-> do_optional, ret |-> ret, work |-> work]

\* Switch with the latch one cell that both invocations use
Switch_SharedLatch ==
    /\ pc # "build" \/ parked.pc # "build"
    /\ parked' = [Cur EXCEPT !.do_optional = parked.do_optional]
    /\ pc' = parked.pc
    /\ raw_args' = parked.raw_args
    /\ pos' = parked.pos
    /\ res' = parked.res
    /\ required_pos' = parked.required_pos
    /\ optional_pos' = parked.optional_pos
    /\ do_optional' = do_optional
    /\ ret' = parked.ret
    /\ work' = parked.work
    /\ UNCHANGED <<schema, kw_added, value, narrowed, compared>>

\* the scheduler suspends the running invocation and resumes the other: the
\* locals of parse_args live in the frame of the call, one frame per
\* invocation
Switch ==
    /\ pc # "build" \/ parked.pc # "build"
    /\ parked' = Cur
    /\ pc' = parked.pc
    /\ raw_args' = parked.raw_args
    /\ pos' = parked.pos
    /\ res' = parked.res
    /\ required_pos' = parked.required_pos
    /\ optional_pos' = parked.optional_pos
    /\ do_optional' = parked.do_optional
    /\ ret' = parked.ret
    /\ work' = parked.work
    /\ UNCHANGED <<schema, kw_added, value, narrowed, compared>>

\* add_arg takes &mut self: no invocation of parse_args holds the schema
BuildConc == parked.pc = "build" /\ Build

CallConc == pc = "build" /\ \E toks \in ConcTokenSeqs : ParseBegin(toks)

NextConc ==
    \/ BuildConc
    \/ CallConc
    \/ ScanEnd
    \/ ScanRequired
    \/ ScanKeyword
    \/ ScanOptional
    \/ ScanUnexpected
    \/ PostScan
    \/ Switch

SpecConc == Init /\ [][NextConc]_vars

\* what parse_args hands back: the error, or Ok with the result mapping
Result(r, m) == [ret |-> r, res |-> IF r = OkRet THEN m ELSE EmptyMap]

\* the post-scan check of parse_args on the mapping m, run in one piece
AloneCheck(m) ==
    LET unfilled == {i \in 1..Len(required_args) : ~ContainsKey(m, required_args[i].arg)}
        m1 == FillOptional(m)
        missing == {k \in DOMAIN kwargs : ~ContainsKey(m1, k)}
        nodefault == {k \in missing : kwargs[k].default = None}
    IN  IF unfilled # {}
        THEN {Result(ErrRequired(required_args[Min(unfilled)].arg), m)}
        ELSE IF nodefault # {}
        THEN {Result(ErrRequired(kwargs[k].arg), m) : k \in nodefault}
        ELSE {Result(OkRet, FillKwargs(m1, missing))}

RECURSIVE AloneScan(_, _, _, _, _, _)
\* the scan loop of parse_args from token p on, run in one piece
AloneScan(toks, p, m, rp, op, dopt) ==
    IF p >= Len(toks) THEN AloneCheck(m)
    ELSE LET tok == toks[p + 1]
             key == ToLowercase(tok)
         IN  IF rp < Len(required_args)
             THEN LET arg == required_args[rp + 1]
                      val == ParseArg(arg, tok, toks, p + 1)
                  IN  IF val.r # OkRet THEN {Result(val.r, m)}
                      ELSE AloneScan(toks, val.pos, Insert(m, arg.arg, val.val), rp + 1, op, dopt)
             ELSE IF ContainsKey(kwargs, key)
             THEN IF p + 1 >= Len(toks) THEN {Result(WrongArity, m)}
                  ELSE LET arg == kwargs[key]
                           val == ParseArg(arg, toks[p + 2], toks, p + 2)
                       IN  IF val.r # OkRet THEN {Result(val.r, m)}
                           ELSE AloneScan(toks, val.pos, Insert(m, arg.arg, val.val),
                                          rp, op, FALSE)
             ELSE IF dopt /\ op < Len(optional_args)
             THEN LET arg == optional_args[op + 1]
                      val == ParseArg(arg, tok, toks, p + 1)
                  IN  IF val.r # OkRet THEN {Result(val.r, m)}
                      ELSE AloneScan(toks, val.pos, Insert(m, arg.arg, val.val), rp, op + 1, dopt)
             ELSE {Result(ErrUnexpected(tok), m)}

\* the results parse_args may give for toks on the schema when nothing else
\* runs (more than one only through the iteration order of the keyword map)
Alone(toks) ==
    IF toks = <<>> THEN {Result(WrongArity, EmptyMap)}
    ELSE IF ToLowercase(toks[1]) # name THEN {Result(ErrExpected(name, toks[1]), EmptyMap)}
    ELSE AloneScan(toks, 1, EmptyMap, 0, 0, TRUE)

-----------------------------------------------------------------------------
(* Schemas that declare a type parse_arg! has no arm for                    *)

\* type_name::<bool>(): a type name that is none of TN_STRING, TN_U64,
\* TN_I64, TN_F64
TN_BOOL == "bool"

TypeDecls ==
    { Arg(N_a, "Arg", TN_STRING, "Unit", None),
      Arg(N_a, "Arg", TN_BOOL, "Unit", None),
      Arg(N_v, "Arg", TN_BOOL, "Vec", None),
      Arg(N_o, "Arg", TN_BOOL, "Unit", Some(Val(TN_BOOL, <<"t">>))),
      Arg(T_kw, "Kwarg", TN_BOOL, "Vec", Some(Val(TN_VEC, <<>>))) }

TypeArgTokens == {T_KW, T_x, T_0, T_1, T_big}

TypeTokenSeqs == {<<T_cmd>> \o r : r \in SeqsUpTo(TypeArgTokens, MaxArgTokens)}

BuildTypes == pc = "build" /\ \E arg \in TypeDecls : AddArg(arg)

CallTypes == pc = "build" /\ \E toks \in TypeTokenSeqs : ParseBegin(toks)

NextTypes ==
    \/ BuildTypes
    \/ CallTypes
    \/ ScanEnd
    \/ ScanRequired
    \/ ScanKeyword
    \/ ScanOptional
    \/ ScanUnexpected
    \/ PostScan

SpecTypes == Init /\ [][NextTypes]_vars

-----------------------------------------------------------------------------
(* Equality of two Commands                                                 *)

\* add_arg calls on each of the two Commands compared
MaxEqArgs == 2

\* Arg::new with its description
ArgDesc(arg, desc, arg_type, type_name, kind, default) ==
    [arg |-> arg, desc |-> desc, arg_type |-> arg_type, type_name |-> type_name,
     kind |-> kind, default |-> default]

\* the declarations the compared Commands are built from: pairs that differ
\* in the description only, in the default value only, in type and shape
\* under one name, and two keywords of different names
EqDecls ==
    { ArgDesc(N_a, "d1", "Arg", TN_STRING, "Unit", None),
      ArgDesc(N_a, "d2", "Arg", TN_STRING, "Unit", None),
      ArgDesc(N_o, "d1", "Arg", TN_STRING, "Unit", Some(Val(TN_STRING, <<"d">>))),
      ArgDesc(N_o, "d1", "Arg", TN_STRING, "Unit", Some(Val(TN_STRING, <<"e">>))),
      ArgDesc(T_kw, "d1", "Kwarg", TN_STRING, "Unit", None),
      ArgDesc(T_kw, "d1", "Kwarg", TN_I64, "Vec", Some(Val(TN_VEC, <<>>))),
      ArgDesc(N_v, "d1", "Kwarg", TN_U64, "Unit", Some(Val(TN_U64, <<"1">>))) }

\* Command::add_arg on the Command c
add_arg(c, arg) ==
    IF arg.arg_type = "Arg"
    THEN IF arg.default = None
         THEN [c EXCEPT !.required_args = Append(@, arg)]
         ELSE [c EXCEPT !.optional_args = Append(@, arg)]
    ELSE [c EXCEPT !.kwargs = Insert(@, arg.arg, arg)]

\* PartialEq for Arg with the defaults compared as well
ArgEq_WithDefault(a, b) ==
    /\ a.arg = b.arg
    /\ a.arg_type = b.arg_type
    /\ a.type_name = b.type_name
    /\ a.kind = b.kind
    /\ a.default = b.default

\* impl PartialEq for Arg
ArgEq(a, b) ==
    /\ a.arg = b.arg
    /\ a.arg_type = b.arg_type
    /\ a.type_name = b.type_name
    /\ a.kind = b.kind
    /\ (a.default = None) = (b.default = None)

\* Vec<Arg> == Vec<Arg>
VecEq(l1, l2) == Len(l1) = Len(l2) /\ \A i \in 1..Len(l1) : ArgEq(l1[i], l2[i])

\* HashMap<&str, Arg> == HashMap<&str, Arg>
MapEq(m1, m2) ==
    /\ Cardinality(DOMAIN m1) = Cardinality(DOMAIN m2)
    /\ \A k \in DOMAIN m1 : k \in DOMAIN m2 /\ ArgEq(m1[k], m2[k])

\* #[derive(PartialEq)] for Command: field by field
CommandEq(c1, c2) ==
    /\ c1.name = c2.name
    /\ c1.desc = c2.desc
    /\ VecEq(c1.required_args, c2.required_args)
    /\ VecEq(c1.optional_args, c2.optional_args)
    /\ MapEq(c1.kwargs, c2.kwargs)

\* two Commands as Command::new leaves them
InitEq ==
    /\ name \in SchemaNames
    /\ required_args = <<>>
    /\ optional_args = <<>>
    /\ kwargs = EmptyMap
    /\ pc = "build"
    /\ raw_args = <<>>
    /\ pos = 0
    /\ res = EmptyMap
    /\ required_pos = 0
    /\ optional_pos = 0
    /\ do_optional = TRUE
    /\ ret = Pending
    /\ work = 0
    /\ kw_added = <<>>
    /\ parked = NotStarted
    /\ value = NoVal
    /\ narrowed = NotNarrowed
    /\ lhs = Unbuilt
    /\ rhs \in {[cmd |-> New(n, d), added |-> <<>>] : n \in {T_cmd, T_Cmd}, d \in {"foo", "bar"}}
    /\ eq = None

\* add_arg on the first Command
AddLeft(arg) ==
    /\ eq = None
    /\ Len(lhs.added) < MaxEqArgs
    /\ lhs' = [cmd |-> add_arg(lhs.cmd, arg), added |-> Append(lhs.added, arg)]
    /\ UNCHANGED <<schema, pc, locals, kw_added, parked, value, narrowed, rhs, eq>>

\* add_arg on the second Command
AddRight(arg) ==
    /\ eq = None
    /\ Len(rhs.added) < MaxEqArgs
    /\ rhs' = [cmd |-> add_arg(rhs.cmd, arg), added |-> Append(rhs.added, arg)]
    /\ UNCHANGED <<schema, pc, locals, kw_added, parked, value, narrowed, lhs, eq>>

\* lhs == rhs
Compare ==
    /\ eq = None
    /\ eq' = Some(CommandEq(lhs.cmd, rhs.cmd))
    /\ UNCHANGED <<schema, pc, locals, kw_added, parked, value, narrowed, lhs, rhs>>

NextEq ==
    \/ \E arg \in EqDecls : AddLeft(arg)
    \/ \E arg \in EqDecls : AddRight(arg)
    \/ Compare

SpecEq == InitEq /\ [][NextEq]_vars

-----------------------------------------------------------------------------
(* Schemas with sequences of text beside keywords                           *)

SeqDecls ==
    { Arg(N_v, "Arg", TN_STRING, "Vec", None),
      Arg(N_v, "Arg", TN_U64, "Vec", None),
      Arg(N_o, "Arg", TN_STRING, "Vec", Some(Val(TN_VEC, <<>>))),
      Arg(T_kw, "Kwarg", TN_STRING, "Unit", None),
      Arg(T_kw, "Kwarg", TN_I64, "Vec", Some(Val(TN_VEC, <<Val(TN_I64, <<"-", "1">>)>>))) }

SeqArgTokens == {T_KW, T_x, T_1, T_2}

SeqTokenSeqs == {<<T_cmd>> \o r : r \in SeqsUpTo(SeqArgTokens, MaxArgTokens)}

BuildSeq == pc = "build" /\ \E arg \in SeqDecls : AddArg(arg)

CallSeq == pc = "build" /\ \E toks \in SeqTokenSeqs : ParseBegin(toks)

NextSeq ==
    \/ BuildSeq
    \/ CallSeq
    \/ ScanEnd
    \/ ScanRequired
    \/ ScanKeyword
    \/ ScanOptional
    \/ ScanUnexpected
    \/ PostScan

SpecSeq == Init /\ [][NextSeq]_vars

-----------------------------------------------------------------------------
(* Token vectors long enough to name a keyword twice                        *)

\* argument tokens of a vector that repeats a keyword
MaxRepeatTokens == 4

RepeatDecls ==
    { Arg(N_a, "Arg", TN_STRING, "Unit", None),
      Arg(N_o, "Arg", TN_STRING, "Unit", Some(Val(TN_STRING, <<"d">>))),
      Arg(T_kw, "Kwarg", TN_STRING, "Unit", None),
      Arg(T_kw, "Kwarg", TN_I64, "Vec", Some(Val(TN_VEC, <<Val(TN_I64, <<"-", "1">>)>>))) }

RepeatArgTokens == {T_KW, T_x, T_1}

RepeatTokenSeqs == {<<T_cmd>> \o r : r \in SeqsUpTo(RepeatArgTokens, MaxRepeatTokens)}

BuildRepeat == pc = "build" /\ \E arg \in RepeatDecls : AddArg(arg)

CallRepeat == pc = "build" /\ \E toks \in RepeatTokenSeqs : ParseBegin(toks)

NextRepeat ==
    \/ BuildRepeat
    \/ CallRepeat
    \/ ScanEnd
    \/ ScanRequired
    \/ ScanKeyword
    \/ ScanOptional
    \/ ScanUnexpected
    \/ PostScan

SpecRepeat == Init /\ [][NextRepeat]_vars

-----------------------------------------------------------------------------
(* Value: the accessors of a Box<dyn Value>                                  *)

\* elements of the longest sequence value narrowed
MaxVecLen == 2

\* values of the four scalar types; the u64 1 and the i64 1 differ in type only
Scalars ==
    {Val(TN_STRING, T_x), Val(TN_STRING, T_1), Val(TN_U64, <<"0">>), Val(TN_U64, <<"1">>),
     Val(TN_I64, <<"-", "1">>), Val(TN_I64, <<"1">>), Val(TN_F64, <<"1">>)}

\* the values an accessor is called on: a scalar, or a Vec<Box<dyn Value>> of
\* scalars (what parse_arg! builds, and what a default may hold)
Values == Scalars \cup {Val(TN_VEC, s) : s \in SeqsUpTo(Scalars, MaxVecLen)}

Accessors ==
    {"as_string", "as_u64", "as_i64", "as_f64", "as_vec",
     "as_stringvec", "as_u64vec", "as_i64vec", "as_f64vec"}

\* "Unable to cast {:?} into <target>": the Debug text of a Box<dyn Any> does
\* not show what it holds, so the error tells the target only
ErrCast(target) == Outcome("TypeMismatch", <<target>>, <<>>)

\* the Result of an accessor; seen counts the elements narrowed
CastOk(acc, v, seen) == [acc |-> acc, ok |-> TRUE, v |-> v, err |-> OkRet, seen |-> seen]
CastErr(acc, e, seen) == [acc |-> acc, ok |-> FALSE, v |-> <<>>, err |-> e, seen |-> seen]

\* into_any().downcast::<T>(): Ok exactly when the value holds a T
Downcast(acc, val, tn, target) ==
    IF val.t = tn THEN CastOk(acc, val.v, 0) ELSE CastErr(acc, ErrCast(target), 0)

as_string(val) == Downcast("as_string", val, TN_STRING, "String")

as_u64(val) == Downcast("as_u64", val, TN_U64, "u64")

\* as_i64 taking a u64 as well
as_i64_Widening(val) ==
    IF val.t \in {TN_I64, TN_U64} THEN CastOk("as_i64", val.v, 0)
    ELSE CastErr("as_i64", ErrCast("i64"), 0)

as_i64(val) == Downcast("as_i64", val, TN_I64, "i64")

as_f64(val) == Downcast("as_f64", val, TN_F64, "f64")

as_vec(val) == Downcast("as_vec", val, TN_VEC, "String vec")

\* the closure of map, |x| x.as_X(), on one element
Element(elem, tn) ==
    CASE tn = TN_STRING -> as_string(elem)
      [] tn = TN_U64 -> as_u64(elem)
      [] tn = TN_I64 -> as_i64(elem)
      [] OTHER -> as_f64(elem)

RECURSIVE FoldResults_NoShortCircuit(_, _, _, _, _)
\* fold_results going on after an Err and returning it at the end
FoldResults_NoShortCircuit(acc, elems, tn, i, out) ==
    IF i > Len(elems)
    THEN IF Len(out) < Len(elems)
         THEN CastErr(acc, Element(CHOOSE e \in Scalars : e.t # tn, tn).err, Len(elems))
         ELSE CastOk(acc, out, Len(elems))
    ELSE LET r == Element(elems[i], tn)
         IN  FoldResults_NoShortCircuit(acc, elems, tn, i + 1,
                                        IF r.ok THEN Append(out, r.v) ELSE out)

RECURSIVE FoldResults(_, _, _, _, _)
\* into_iter().map(..).fold_results(Vec::new(), push): the elements are
\* narrowed in order, the first Err ends the fold and is returned
FoldResults(acc, elems, tn, i, out) ==
    IF i > Len(elems) THEN CastOk(acc, out, Len(elems))
    ELSE LET r == Element(elems[i], tn)
         IN  IF ~r.ok THEN CastErr(acc, r.err, i)
             ELSE FoldResults(acc, elems, tn, i + 1, Append(out, r.v))

\* self.as_vec()? and then the fold over the elements
AsTypedVec(acc, val, tn) ==
    LET g == as_vec(val)
    IN  IF ~g.ok THEN CastErr(acc, g.err, 0)
        ELSE FoldResults(acc, g.v, tn, 1, <<>>)

as_stringvec(val) == AsTypedVec("as_stringvec", val, TN_STRING)

as_u64vec(val) == AsTypedVec("as_u64vec", val, TN_U64)

as_i64vec(val) == AsTypedVec("as_i64vec", val, TN_I64)

as_f64vec(val) == AsTypedVec("as_f64vec", val, TN_F64)

\* the caller narrows the value it holds; the value is consumed by the call
Narrow(r) ==
    /\ pc = "build"
    /\ value # NoVal
    /\ narrowed = NotNarrowed
    /\ narrowed' = r
    /\ UNCHANGED <<schema, pc, kw_added, parked, value, compared>>
    /\ UNCHANGED locals

\* Command::new, and a value in the caller's hands
InitValue ==
    /\ name \in SchemaNames
    /\ required_args = <<>>
    /\ optional_args = <<>>
    /\ kwargs = EmptyMap
    /\ pc = "build"
    /\ raw_args = <<>>
    /\ pos = 0
    /\ res = EmptyMap
    /\ required_pos = 0
    /\ optional_pos = 0
    /\ do_optional = TRUE
    /\ ret = Pending
    /\ work = 0
    /\ kw_added = <<>>
    /\ parked = NotStarted
    /\ value \in Values
    /\ narrowed = NotNarrowed
    /\ lhs = Unbuilt
    /\ rhs = Unbuilt
    /\ eq = None

NextValue ==
    \/ Narrow(as_string(value))
    \/ Narrow(as_u64(value))
    \/ Narrow(as_i64(value))
    \/ Narrow(as_f64(value))
    \/ Narrow(as_vec(value))
    \/ Narrow(as_stringvec(value))
    \/ Narrow(as_u64vec(value))
    \/ Narrow(as_i64vec(value))
    \/ Narrow(as_f64vec(value))

SpecValue == InitValue /\ [][NextValue]_vars

-----------------------------------------------------------------------------
(* Vocabulary of the properties: what the token vector says, read off the   *)
(* input and the schema alone                                               *)

EqIgnoreCase(s, t) == ToLowercase(s) = ToLowercase(t)

Returned == pc = "done"
Succeeded == pc = "done" /\ ret = OkRet

\* every name the schema declares
DeclaredNames ==
    {required_args[i].arg : i \in 1..Len(required_args)}
        \cup {optional_args[i].arg : i \in 1..Len(optional_args)}
        \cup {kwargs[k].arg : k \in DOMAIN kwargs}

\* no name is declared twice, within a group or across groups
UniqueNames == SchemaSize = Cardinality(DeclaredNames)

\* the token is, ignoring case, the name of a keyword argument
IsKeywordName(tok) == \E k \in DOMAIN kwargs : EqIgnoreCase(tok, k)

\* the token, lowercased, is a key of the keyword map
IsKey(tok) == \E k \in DOMAIN kwargs : k = ToLowercase(tok)

\* a token is valid for a declared scalar type
TokValid(tn, tok) ==
    \/ tn = TN_STRING
    \/ tn = TN_U64 /\ ParseUnsigned(tok).ok
    \/ tn = TN_I64 /\ ParseInteger(tok).ok
    \/ tn = TN_F64 /\ ParseFloat(tok).ok

\* the value a valid token denotes
ScalarOf(tn, tok) ==
    IF tn = TN_STRING THEN Val(tn, tok)
    ELSE IF tn = TN_U64 THEN Val(tn, ParseUnsigned(tok).v)
    ELSE IF tn = TN_I64 THEN Val(tn, ParseInteger(tok).v)
    ELSE Val(tn, ParseFloat(tok).v)

\* the length a token announces (0 when it is no unsigned integer), counted
\* no further than one past the length of the stream
LenTok(i) ==
    IF i \in 1..Len(raw_args) /\ ParseUnsigned(raw_args[i]).ok
    THEN LoopCount(ParseUnsigned(raw_args[i]).v, Len(raw_args))
    ELSE 0

\* tokens in the group of declaration d that starts at index i
GroupLen(d, i) == IF d.kind = "Unit" THEN 1 ELSE 1 + LenTok(i)

\* the tokens from index i on form a valid group for declaration d
ValidGroup(d, i) ==
    /\ i \in 1..Len(raw_args)
    /\ IF d.kind = "Unit" THEN TokValid(d.type_name, raw_args[i])
       ELSE /\ ParseUnsigned(raw_args[i]).ok
            /\ i + LenTok(i) <= Len(raw_args)
            /\ \A j \in 1..LenTok(i) : TokValid(d.type_name, raw_args[i + j])

\* the value the valid group at index i denotes
GroupValue(d, i) ==
    IF d.kind = "Unit" THEN ScalarOf(d.type_name, raw_args[i])
    ELSE Val(TN_VEC, [j \in 1..LenTok(i) |-> ScalarOf(d.type_name, raw_args[i + j])])

\* index at which the k-th group of the list args starts, the first at index first
RECURSIVE GroupStart(_, _, _)
GroupStart(args, first, k) ==
    IF k <= 1 THEN first
    ELSE LET prev == GroupStart(args, first, k - 1)
         IN  prev + GroupLen(args[k - 1], prev)

ReqStart(i) == GroupStart(required_args, 2, i)

\* index of the first token after the groups of the required positionals
OptFirst == GroupStart(required_args, 2, Len(required_args) + 1)

OptStart(k) == GroupStart(optional_args, OptFirst, k)

\* number of bare groups that stand between the required groups and the
\* first keyword token
RECURSIVE CountBare(_, _)
CountBare(k, i) ==
    IF k > Len(optional_args) \/ i > Len(raw_args) THEN k - 1
    ELSE IF IsKeywordName(raw_args[i]) THEN k - 1
    ELSE CountBare(k + 1, i + GroupLen(optional_args[k], i))

NBare == CountBare(1, OptFirst)

KeyOf(tok) == CHOOSE k \in DOMAIN kwargs : EqIgnoreCase(tok, k)

\* the keyword groups from index i on: each key mapped to the index at which
\* the value group of its last occurrence starts
RECURSIVE KwWalk(_, _)
KwWalk(i, m) ==
    IF i >= Len(raw_args) THEN m
    ELSE IF ~IsKeywordName(raw_args[i]) THEN m
    ELSE LET k == KeyOf(raw_args[i])
         IN  KwWalk(i + 1 + GroupLen(kwargs[k], i + 1), Insert(m, k, i + 1))

KwSupplied == KwWalk(OptStart(NBare + 1), EmptyMap)

-----------------------------------------------------------------------------
(* C1 *)

\* C1: whenever parse_args returns Ok, the keys of the returned mapping are
\* exactly the declared argument names of the schema: required positionals,
\* optional positionals and keyword arguments, none missing and none extra.
C1_OkIsComplete == Succeeded => DOMAIN res = DeclaredNames

\* an Ok result over a schema with all three groups, in which an optional
\* positional was left to its default
C1_Witness ==
    /\ Succeeded
    /\ Len(required_args) > 0
    /\ optional_pos < Len(optional_args)
    /\ DOMAIN kwargs # {}

-----------------------------------------------------------------------------
(* C2 *)

\* the groups of the required positionals, from declaration k at index i on,
\* are all valid: the index after them, or 0 when one is not valid
RECURSIVE ReqGroupsEnd(_, _)
ReqGroupsEnd(k, i) ==
    IF k > Len(required_args) THEN i
    ELSE IF ValidGroup(required_args[k], i)
         THEN ReqGroupsEnd(k + 1, i + GroupLen(required_args[k], i))
         ELSE 0

\* the indices at which valid groups for a prefix of the optional positionals,
\* from declaration k at index i on, may end
RECURSIVE OptGroupsEnds(_, _)
OptGroupsEnds(k, i) ==
    {i} \cup (IF k <= Len(optional_args) /\ ValidGroup(optional_args[k], i)
              THEN OptGroupsEnds(k + 1, i + GroupLen(optional_args[k], i))
              ELSE {})

\* the tokens from index i on are keyword/value groups, each valid, which
\* together with the keywords in seen include every keyword without a default
RECURSIVE KwGroupsValid(_, _)
KwGroupsValid(i, seen) ==
    IF i > Len(raw_args)
    THEN \A k \in DOMAIN kwargs : kwargs[k].default = None => k \in seen
    ELSE \E k \in DOMAIN kwargs :
            /\ EqIgnoreCase(raw_args[i], k)
            /\ ValidGroup(kwargs[k], i + 1)
            /\ KwGroupsValid(i + 1 + GroupLen(kwargs[k], i + 1), seen \cup {k})

\* the input is a fully-valid token sequence for the schema
FullyValid ==
    /\ Len(raw_args) >= 1
    /\ EqIgnoreCase(raw_args[1], name)
    /\ LET e == ReqGroupsEnd(1, 2)
       IN  /\ e # 0
           /\ \E s \in OptGroupsEnds(1, e) : KwGroupsValid(s, {})

\* C2: for every schema and every fully-valid token sequence for it (the
\* command name, a valid group per required positional in declaration order,
\* valid groups for a prefix of the optional positionals, then keyword/value
\* groups that include every keyword without a default), parse_args succeeds.
C2_FullyValidSucceeds == (Returned /\ FullyValid) => ret = OkRet

-----------------------------------------------------------------------------
(* C6 *)

\* C6: parse_args compares the first token with the schema's command name
\* ignoring case: equal ignoring case, the parse goes on (no name-mismatch
\* error); different, it fails with "Expected <command>, got <token>"; an empty
\* token vector fails with WrongArity; and the check precedes every argument
\* token (only the first token has been taken when it fails).
C6_NameCheckIgnoresCase ==
    pc # "build" =>
        IF raw_args = <<>> THEN ret = WrongArity
        ELSE IF EqIgnoreCase(raw_args[1], name) THEN ret.tag # "Expected"
        ELSE ret = ErrExpected(name, raw_args[1]) /\ pos = 1

-----------------------------------------------------------------------------
(* C7 *)

\* the scan loop is about to take a token, the required positionals filled
AtFreeToken == pc = "scan" /\ pos < Len(raw_args) /\ required_pos = Len(required_args)

\* this step treats the token at pos + 1 as keyword k: the latch closes, and
\* the token group that follows is stored as the value of k (WrongArity when
\* no token follows)
TakenAsKeyword(k) ==
    /\ do_optional' = FALSE
    /\ IF pos + 1 >= Len(raw_args) THEN ret' = WrongArity
       ELSE ValidGroup(kwargs[k], pos + 2) =>
                /\ pc' = "scan"
                /\ res' = Insert(res, k, GroupValue(kwargs[k], pos + 2))
                /\ pos' = pos + 1 + GroupLen(kwargs[k], pos + 2)

\* C7: keyword lookup ignores case: for every keyword argument added under
\* name K and every token equal to K ignoring case that is met after the
\* required positionals are filled, the token is recognised as that keyword
\* and the token group that follows is stored as its value.
C7_KeywordLookupIgnoresCase ==
    [][AtFreeToken =>
          \A k \in DOMAIN kwargs : EqIgnoreCase(raw_args[pos + 1], k) => TakenAsKeyword(k)]_vars

-----------------------------------------------------------------------------
(* C9 *)

\* C9: the optional-positional latch is one-way.  A token matched as a keyword
\* closes it; once closed it stays closed for the rest of the parse, no
\* optional positional is filled from a later token (the cursor stands still
\* and only keyword entries of the result change), and a later bare token
\* that matches no keyword fails with "Unexpected arg <token>", unfilled
\* optional positionals or not.
C9_LatchOneWay ==
    [][pc = "scan" =>
          /\ (AtFreeToken /\ IsKey(raw_args[pos + 1])) => do_optional' = FALSE
          /\ ~do_optional =>
                /\ do_optional' = FALSE
                /\ optional_pos' = optional_pos
                /\ \A n \in DOMAIN res' :
                      n \notin DOMAIN kwargs => n \in DOMAIN res /\ res'[n] = res[n]
          /\ (~do_optional /\ pos < Len(raw_args) /\ ~IsKeywordName(raw_args[pos + 1])) =>
                pc' = "done" /\ ret' = ErrUnexpected(raw_args[pos + 1])]_vars

\* a bare token after a keyword was rejected although an optional positional
\* was still unfilled
C9_Witness ==
    /\ Returned
    /\ ret.tag = "Unexpected"
    /\ ~do_optional
    /\ optional_pos < Len(optional_args)

-----------------------------------------------------------------------------
(* C10 *)

\* C10: a required positional takes the token before any keyword lookup.
\* While required_pos is below the number of required positionals, the token
\* group at the cursor becomes the value of the current required positional,
\* also when its first token is a keyword name; the latch and the optional
\* cursor are left alone, and a group that is not valid for the declaration
\* ends the parse inside parse_arg!, never as a keyword.
C10_RequiredBeforeKeyword ==
    [][(pc = "scan" /\ pos < Len(raw_args) /\ required_pos < Len(required_args)) =>
          LET d == required_args[required_pos + 1]
          IN  /\ do_optional' = do_optional
              /\ optional_pos' = optional_pos
              /\ IF ValidGroup(d, pos + 1)
                 THEN /\ pc' = "scan"
                      /\ required_pos' = required_pos + 1
                      /\ res' = Insert(res, d.arg, GroupValue(d, pos + 1))
                      /\ pos' = pos + GroupLen(d, pos + 1)
                 ELSE /\ \/ pc' = "done" /\ ret'.tag \in {"InvalidNumber", "WrongArity", "Unsupported"}
                         \/ pc' = "panic" /\ ret' = Pending
                      /\ res' = res]_vars

\* the first required positional holds a token that is a key of the keyword
\* map, and the latch is still open
C10_Witness ==
    /\ pc = "scan"
    /\ required_pos = 1
    /\ pos = 2
    /\ IsKey(raw_args[2])
    /\ do_optional
    /\ res = Insert(EmptyMap, required_args[1].arg, Val(TN_STRING, raw_args[2]))

-----------------------------------------------------------------------------
(* C3 *)

\* the result maps name n to value v
ResIs(n, v) == n \in DOMAIN res /\ res[n] = v

\* every optional positional and every keyword with a default is mapped to
\* the value supplied for it, or else to its declared default
DefaultsResolved ==
    /\ \A i \in 1..Len(optional_args) :
          LET d == optional_args[i]
          IN  ResIs(d.arg, IF i <= NBare THEN GroupValue(d, OptStart(i)) ELSE d.default[1])
    /\ \A k \in DOMAIN kwargs :
          kwargs[k].default # None =>
              ResIs(k, IF k \in DOMAIN KwSupplied
                       THEN GroupValue(kwargs[k], KwSupplied[k])
                       ELSE kwargs[k].default[1])

\* no step of a parse changes the schema, the stored defaults included
SchemaKept == [][pc' # "build" => schema' = schema]_vars

\* C3 as stated: on a successful parse every optional positional and every
\* keyword with a default that was not supplied is mapped to its declared
\* default, every supplied one to the supplied value, and the schema's
\* stored defaults are unchanged afterwards.
C3_AsStated == [](Succeeded => DefaultsResolved) /\ SchemaKept

\* C3, amended: the same, for schemas whose declared names are pairwise
\* distinct.
C3_DefaultsResolved == []((Succeeded /\ UniqueNames) => DefaultsResolved) /\ SchemaKept

\* a success in which an optional positional was supplied and a keyword was
\* left to its default
C3_Witness ==
    /\ Succeeded
    /\ UniqueNames
    /\ NBare = 1
    /\ res[optional_args[1].arg] # optional_args[1].default[1]
    /\ \E k \in DOMAIN kwargs :
          /\ kwargs[k].default # None
          /\ k \notin DOMAIN KwSupplied
          /\ res[k] = kwargs[k].default[1]

-----------------------------------------------------------------------------
(* C4 *)

\* the positional slots hold the token groups in declaration order
PositionalsInOrder ==
    /\ required_pos = Len(required_args)
    /\ \A i \in 1..Len(required_args) :
          ResIs(required_args[i].arg, GroupValue(required_args[i], ReqStart(i)))
    /\ optional_pos = NBare
    /\ \A k \in 1..NBare :
          ResIs(optional_args[k].arg, GroupValue(optional_args[k], OptStart(k)))

\* C4 as stated: on success the i-th token group after the command name is
\* the value of the i-th required positional, and the k-th bare group after
\* them the value of the k-th optional positional, in insertion order.
C4_AsStated == Succeeded => PositionalsInOrder

\* C4, amended: the same, for schemas whose declared names are pairwise
\* distinct.
C4_PositionalsInOrder == (Succeeded /\ UniqueNames) => PositionalsInOrder

\* a success with two required positionals of different shape and a supplied
\* optional positional
C4_Witness ==
    /\ Succeeded
    /\ UniqueNames
    /\ Len(required_args) = 2
    /\ required_args[1].kind # required_args[2].kind
    /\ NBare = 1

-----------------------------------------------------------------------------
(* C5 *)

\* the declaration the next scan step parses a value for, with the index of
\* the first token of that value; <<>> when the step parses no value
StepGroup ==
    IF required_pos < Len(required_args)
    THEN <<required_args[required_pos + 1], pos + 1>>
    ELSE IF IsKey(raw_args[pos + 1])
    THEN <<kwargs[KeyOf(raw_args[pos + 1])], pos + 2>>
    ELSE IF do_optional /\ optional_pos < Len(optional_args)
    THEN <<optional_args[optional_pos + 1], pos + 1>>
    ELSE <<>>

\* the next scan step parses a sequence-shaped declaration whose length token
\* is present and is a valid unsigned count
AtSequence ==
    /\ pc = "scan"
    /\ pos < Len(raw_args)
    /\ StepGroup # <<>>
    /\ StepGroup[1].kind = "Vec"
    /\ StepGroup[2] <= Len(raw_args)
    /\ ParseUnsigned(raw_args[StepGroup[2]]).ok

\* the step ends the parse with the arity error
EndsWithArity == pc' = "done" /\ ret' = WrongArity /\ res' = res

\* the step binds the declaration to the n elements after the length token,
\* in order, and leaves the cursor on the last of them
BindsSequence(d, f, n) ==
    /\ pc' = "scan"
    /\ pos' = f + n
    /\ d.arg \in DOMAIN res'
    /\ res'[d.arg] = Val(TN_VEC, [j \in 1..n |-> ScalarOf(d.type_name, raw_args[f + j])])
    /\ \A x \in (DOMAIN res) \ {d.arg} : x \in DOMAIN res' /\ res'[x] = res[x]

\* C5: a sequence value is a count token n followed by exactly n element
\* tokens; with n valid elements it is bound to those n values in order and
\* n+1 tokens are consumed, n = 0 giving the empty sequence; with fewer than
\* n tokens after the count (valid elements, as far as they go) the parse
\* fails with the arity error.
C5_SequenceShape ==
    [][AtSequence =>
        LET d == StepGroup[1]
            f == StepGroup[2]
            n == LenTok(f)
            avail == Len(raw_args) - f
        IN  /\ (n <= avail /\ \A j \in 1..n : TokValid(d.type_name, raw_args[f + j]))
                   => BindsSequence(d, f, n)
            /\ (n > avail /\ \A j \in 1..avail : TokValid(d.type_name, raw_args[f + j]))
                   => EndsWithArity]_vars

-----------------------------------------------------------------------------
(* C8 *)

\* required positionals whose name the result lacks, by index
UnfilledRequired ==
    {i \in 1..Len(required_args) : required_args[i].arg \notin DOMAIN res}

\* keyword names declared without a default that the result lacks
UnfilledKeywords ==
    {k \in DOMAIN kwargs : kwargs[k].default = None /\ k \notin DOMAIN res}

\* the scan has ended without error and the completeness checks run next
ScanEnded == pc = "check"

\* the completeness step fails with MissingRequired exactly when a required
\* positional or a keyword without default is unfilled, and names the first
\* unfilled required positional in declaration order, or else an unfilled
\* keyword without default
ReportsMissing ==
    /\ pc' = "done"
    /\ (ret'.tag = "Required") = (UnfilledRequired # {} \/ UnfilledKeywords # {})
    /\ UnfilledRequired # {} =>
          ret' = ErrRequired(required_args[Min(UnfilledRequired)].arg)
    /\ (UnfilledRequired = {} /\ UnfilledKeywords # {}) =>
          \E k \in UnfilledKeywords : ret' = ErrRequired(k)
    /\ (UnfilledRequired = {} /\ UnfilledKeywords = {}) => ret' = OkRet
    /\ (Len(raw_args) = 1 /\ Len(required_args) > 0) =>
          ret' = ErrRequired(required_args[1].arg)

\* the tokens the scan consumed filled fewer slots than the schema requires
SlotsUnfilled ==
    \/ required_pos < Len(required_args)
    \/ \E k \in DOMAIN kwargs : kwargs[k].default = None /\ k \notin DOMAIN KwSupplied

\* C8 as stated: after the scan ends without error the parse fails with
\* MissingRequired if and only if a required positional or a keyword without
\* default is unfilled; the error names the first unfilled required positional
\* in declaration order, or if none an unfilled keyword without default; a
\* stream holding only the command name fails naming the first required
\* positional.
C8_AsStated ==
    [][ScanEnded =>
          /\ ReportsMissing
          /\ SlotsUnfilled => ret'.tag = "Required"]_vars

\* C8, amended: the same, for schemas whose declared names are pairwise
\* distinct.
C8_MissingRequired ==
    [][(ScanEnded /\ UniqueNames) =>
          /\ ReportsMissing
          /\ SlotsUnfilled => ret'.tag = "Required"]_vars

\* the parse failed naming the second required positional, the first having
\* been filled
C8_Witness ==
    /\ Returned
    /\ UniqueNames
    /\ Len(required_args) = 2
    /\ required_pos = 1
    /\ ret = ErrRequired(required_args[2].arg)

-----------------------------------------------------------------------------
(* C11 *)

\* the scan loop is about to take the last token of the stream, the required
\* positionals are filled, and the lookup finds the token in the keyword map
AtLastKeyword == AtFreeToken /\ pos + 1 = Len(raw_args) /\ IsKey(raw_args[pos + 1])

\* C11: a token recognised as a keyword that is the last token of the stream
\* (no value token follows) makes parse_args fail with WrongArity, whether
\* the keyword has a default or not.
C11_KeywordWithoutValue ==
    [][AtLastKeyword => pc' = "done" /\ ret' = WrongArity /\ res' = res]_vars

\* the parse failed with WrongArity on a last token that is a keyword with a
\* default
C11_Witness ==
    /\ Returned
    /\ ret = WrongArity
    /\ required_pos = Len(required_args)
    /\ pos = Len(raw_args)
    /\ pos >= 2
    /\ IsKey(raw_args[pos])
    /\ kwargs[ToLowercase(raw_args[pos])].default # None
    /\ kwargs[ToLowercase(raw_args[pos])].kind = "Vec"

-----------------------------------------------------------------------------
(* C12 *)

\* every positional slot, required and optional, has been filled
AllSlotsFilled ==
    required_pos = Len(required_args) /\ optional_pos = Len(optional_args)

\* index of the first token after one group per positional slot
ExcessIndex == OptStart(Len(optional_args) + 1)

\* the stream holds a valid bare group for every positional slot and then
\* one more bare token
MoreBareThanSlots ==
    /\ Len(raw_args) >= 1
    /\ ToLowercase(raw_args[1]) = name
    /\ ReqGroupsEnd(1, 2) # 0
    /\ \A k \in 1..Len(optional_args) :
          /\ ValidGroup(optional_args[k], OptStart(k))
          /\ ~IsKey(raw_args[OptStart(k)])
    /\ ExcessIndex <= Len(raw_args)
    /\ ~IsKey(raw_args[ExcessIndex])

\* C12: a token met after all required positionals are filled that matches no
\* keyword, while every optional positional is already filled or the schema
\* has none, makes parse_args fail with "Unexpected arg <token>" naming that
\* token; a stream with more bare tokens than positional slots is rejected at
\* the first excess token.
C12_ExcessTokenRejected ==
    /\ [][(pc = "scan" /\ pos < Len(raw_args) /\ AllSlotsFilled /\ ~IsKey(raw_args[pos + 1])) =>
            /\ pc' = "done"
            /\ ret' = Outcome("Unexpected", raw_args[pos + 1], <<>>)
            /\ pos' = pos + 1]_vars
    /\ []((pc # "build" /\ MoreBareThanSlots) =>
            /\ pc # "check"
            /\ pos <= ExcessIndex
            /\ Returned => (ret = Outcome("Unexpected", raw_args[ExcessIndex], <<>>)
                               /\ pos = ExcessIndex))

\* a stream with more bare tokens than the schema has positional slots, an
\* optional one among them, was rejected at the first excess token, a
\* further token behind it
C12_Witness ==
    /\ Returned
    /\ MoreBareThanSlots
    /\ Len(optional_args) = 1
    /\ do_optional
    /\ pos < Len(raw_args)
    /\ ret.tag = "Unexpected"

-----------------------------------------------------------------------------
(* C13 *)

\* where the cursor stands when parse_args has returned: on the token the
\* error is about, or at the end of the stream
CursorOnFailure ==
    /\ ret.tag = "Expected" => pos = 1 /\ ret.b = raw_args[1]
    /\ ret.tag \in {"Unexpected", "InvalidNumber"} => pos >= 2 /\ ret.a = raw_args[pos]
    /\ ret.tag \in {"WrongArity", "Required", "Ok"} => pos = Len(raw_args)

\* C13: failure is immediate.  What parse_args returns is either Ok with a
\* complete mapping or one error, fixed once returned; an error of the scan
\* ends the parse in the step that raises it, with no token behind the
\* failing one taken from the stream; and the MissingRequired check is made
\* only after a scan that consumed every token without error.
C13_FailureImmediate ==
    /\ [](Returned =>
            /\ ret # Pending
            /\ ret = OkRet => DOMAIN res = DeclaredNames
            /\ CursorOnFailure)
    /\ [][/\ pc # "done"
          /\ ret = Pending
          /\ pc = "scan" => (pos' >= pos /\ (ret' # Pending <=> pc' = "done")
                                /\ ret'.tag \notin {"Ok", "Required"})
          /\ pc' = "check" => (pc = "scan" /\ pos = Len(raw_args) /\ ret' = Pending)
          /\ ret'.tag \in {"Ok", "Required"} => pc = "check"]_vars

\* a scan error was returned with tokens left unread and a required
\* positional unfilled
C13_Witness ==
    /\ Returned
    /\ ret.tag = "InvalidNumber"
    /\ pos < Len(raw_args)
    /\ required_pos < Len(required_args)

-----------------------------------------------------------------------------
(* C14 *)

\* every default the post-scan loops unwrap is there: an optional positional
\* always holds one, and a keyword's is unwrapped only after is_none was tested
UnwrapsSafe == \A i \in 1..Len(optional_args) : optional_args[i].default # None

\* C14: the parser never panics on malformed input: for every schema built
\* through add_arg and every token sequence no step of parse_args reaches a
\* panic, a very large valid length token included, and the defaults the
\* post-scan check unwraps are present.
C14_NeverPanics == pc # "panic" /\ UnwrapsSafe

-----------------------------------------------------------------------------
(* C15 *)

\* parse_args is over: it returned, or a panic unwound it
Over == pc \in {"done", "panic"}

\* C15: parse_args always terminates.  Every iteration of the scan loop takes
\* at least one token, tokens are never put back, the rounds of the scan loop
\* and of the element loops together number at most the tokens taken (so at
\* most the tokens of the input), and a call that has begun comes to its end.
C15_Terminates ==
    /\ [](work <= pos /\ pos <= Len(raw_args))
    /\ [][/\ pos' >= pos
          /\ pc # "build" => raw_args' = raw_args
          /\ (pc = "scan" /\ pc' # "check") => (pos' > pos /\ work' > work)]_vars
    /\ (pc # "build") ~> Over

\* a parse that made as many rounds as it took tokens: an iteration for the
\* length token, one round per element, and the round that found the stream
\* at its end
C15_Witness ==
    /\ Returned
    /\ ret = WrongArity
    /\ work = Len(raw_args)
    /\ work = MaxArgTokens + 1

-----------------------------------------------------------------------------
(* C16 *)

\* every declaration stands in the group its kind and default assign it to
GroupsWellFormed ==
    /\ \A i \in 1..Len(required_args) :
          required_args[i].arg_type = "Arg" /\ required_args[i].default = None
    /\ \A i \in 1..Len(optional_args) :
          optional_args[i].arg_type = "Arg" /\ optional_args[i].default # None
    /\ \A k \in DOMAIN kwargs : kwargs[k].arg_type = "Kwarg" /\ kwargs[k].arg = k

\* list l2 is list l1 with d put at its end, the earlier entries in place
Appended(l1, l2, d) ==
    /\ Len(l2) = Len(l1) + 1
    /\ \A i \in 1..Len(l1) : l2[i] = l1[i]
    /\ l2[Len(l2)] = d

\* map m2 is map m1 with d under the key k, the other keys as they were
Inserted(m1, m2, k, d) ==
    /\ DOMAIN m2 = (DOMAIN m1) \cup {k}
    /\ m2[k] = d
    /\ \A x \in (DOMAIN m1) \ {k} : m2[x] = m1[x]

\* C16: add_arg puts each declaration into exactly one group and changes
\* nothing else: a Positional declaration without a default goes to the end
\* of the required list, a Positional declaration with a default to the end
\* of the optional list, a Named declaration into the keyword map under its
\* own name; the other two groups and the command name are unchanged and the
\* earlier entries of the lists keep their order.
C16_AddArgClassifies ==
    /\ [](GroupsWellFormed)
    /\ [][(pc = "build" /\ pc' = "build") =>
            /\ name' = name
            /\ locals' = locals
            /\ \E d \in Decls :
                  \/ /\ d.arg_type = "Arg" /\ d.default = None
                     /\ Appended(required_args, required_args', d)
                     /\ optional_args' = optional_args /\ kwargs' = kwargs
                  \/ /\ d.arg_type = "Arg" /\ d.default # None
                     /\ Appended(optional_args, optional_args', d)
                     /\ required_args' = required_args /\ kwargs' = kwargs
                  \/ /\ d.arg_type = "Kwarg"
                     /\ Inserted(kwargs, kwargs', d.arg, d)
                     /\ required_args' = required_args
                     /\ optional_args' = optional_args]_vars

\* a schema that holds a declaration in each of the three groups
C16_Witness ==
    /\ pc = "build"
    /\ Len(required_args) = 1
    /\ Len(optional_args) = 1
    /\ Cardinality(DOMAIN kwargs) = 1

-----------------------------------------------------------------------------
(* C17 *)

\* the positions in kw_added of the add_arg calls made with the name k
NamedCalls(k) == {i \in 1..Len(kw_added) : kw_added[i].arg = k}

\* the declaration of the last add_arg made with the name k
LastNamed(k) == kw_added[CHOOSE i \in NamedCalls(k) : \A j \in NamedCalls(k) : j <= i]

\* the keyword map holds, for each name add_arg was called with, the
\* declaration of the last of those calls
KeywordMapIsLastAdded ==
    /\ DOMAIN kwargs = {kw_added[i].arg : i \in 1..Len(kw_added)}
    /\ \A k \in DOMAIN kwargs : kwargs[k] = LastNamed(k)

\* C17: adding a Named declaration under a name that is already a key raises
\* no error and replaces the earlier declaration: after any calls of add_arg
\* the keyword map holds for each keyword name the declaration of the last
\* call with that name, and parse_args parses the keyword's value with that
\* declaration's type and shape and fills in that declaration's default.
C17_LastNamedWins ==
    /\ []((pc = "build" /\ Calls < MaxArgs) =>
            \A d \in Decls : d.arg_type = "Kwarg" => ENABLED AddArg(d))
    /\ [](KeywordMapIsLastAdded)
    /\ [][(AtFreeToken /\ IsKey(raw_args[pos + 1]) /\ pos + 1 < Len(raw_args)) =>
            LET k == ToLowercase(raw_args[pos + 1])
                d == LastNamed(k)
            IN  ValidGroup(d, pos + 2) =>
                    /\ pc' = "scan"
                    /\ res' = Insert(res, k, GroupValue(d, pos + 2))
                    /\ pos' = pos + 1 + GroupLen(d, pos + 2)]_vars
    /\ []((Succeeded /\ UniqueNames) =>
            \A k \in DOMAIN kwargs :
                (k \notin DOMAIN KwSupplied /\ LastNamed(k).default # None) =>
                    ResIs(k, LastNamed(k).default[1]))

\* a success on a schema in which a keyword was declared twice with
\* different shapes, the value in the result having the shape of the later
\* declaration
C17_Witness ==
    /\ Succeeded
    /\ \E i, j \in 1..Len(kw_added) :
          /\ i < j
          /\ kw_added[i].arg = kw_added[j].arg
          /\ kw_added[i].kind # kw_added[j].kind
          /\ j = Len(kw_added)
          /\ kw_added[j].arg \in DOMAIN KwSupplied
          /\ ResIs(kw_added[j].arg, GroupValue(kw_added[j], KwSupplied[kw_added[j].arg]))

-----------------------------------------------------------------------------
(* C18 *)

ScalarTypes == {TN_STRING, TN_U64, TN_I64, TN_F64}

ScalarAccessor(tn) ==
    CASE tn = TN_STRING -> "as_string"
      [] tn = TN_U64 -> "as_u64"
      [] tn = TN_I64 -> "as_i64"
      [] OTHER -> "as_f64"

VecAccessor(tn) ==
    CASE tn = TN_STRING -> "as_stringvec"
      [] tn = TN_U64 -> "as_u64vec"
      [] tn = TN_I64 -> "as_i64vec"
      [] OTHER -> "as_f64vec"

VecAccessors == {VecAccessor(tn) : tn \in ScalarTypes}

\* val is of the stored kind "tn" (seq false) or "sequence of tn" (seq true);
\* the sequence of length 0 is a sequence of each
OfKind(val, seq, tn) ==
    IF seq THEN val.t = TN_VEC /\ \A i \in 1..Len(val.v) : val.v[i].t = tn
    ELSE val.t = tn

\* the accessors to a kind itself: for a sequence of tn its typed accessor and
\* the generic as_vec
OwnAccessors(seq, tn) == IF seq THEN {"as_vec", VecAccessor(tn)} ELSE {ScalarAccessor(tn)}

\* what an accessor returns when it reproduces val
Original(acc, val) ==
    IF acc \in VecAccessors THEN [i \in 1..Len(val.v) |-> val.v[i].v] ELSE val.v

Mismatch == ~narrowed.ok /\ narrowed.err.tag = "TypeMismatch"

Reproduced == narrowed.ok /\ narrowed.v = Original(narrowed.acc, value)

\* the statement for the values of the kind (seq, tn)
NarrowsAsOwnKind(seq, tn) ==
    IF narrowed.acc \in OwnAccessors(seq, tn) THEN Reproduced ELSE Mismatch

\* the claim as stated, sequences of length 0 included
C18_AsStated ==
    narrowed.acc # "" =>
        \A seq \in BOOLEAN, tn \in ScalarTypes :
            OfKind(value, seq, tn) => NarrowsAsOwnKind(seq, tn)

\* C18: narrowing a scalar, or a sequence of at least one element, to its own
\* kind succeeds and reproduces the original value, and narrowing it to any
\* other kind fails with a TypeMismatch error, for every stored kind and each
\* of the nine accessors; a sequence of length 0 narrows to the empty
\* sequence with each of the five sequence accessors and fails with a
\* TypeMismatch error with the four scalar accessors.
C18_NarrowOwnKind ==
    narrowed.acc # "" =>
        /\ \A seq \in BOOLEAN, tn \in ScalarTypes :
              (OfKind(value, seq, tn) /\ value.v # <<>>) => NarrowsAsOwnKind(seq, tn)
        /\ value = Val(TN_VEC, <<>>) =>
              IF narrowed.acc \in VecAccessors \cup {"as_vec"}
              THEN narrowed.ok /\ narrowed.v = <<>>
              ELSE Mismatch

\* a sequence of two i64 narrowed with as_i64vec, and reproduced
C18_Witness ==
    /\ OfKind(value, TRUE, TN_I64)
    /\ Len(value.v) = MaxVecLen
    /\ narrowed.acc = "as_i64vec"
    /\ Reproduced
    /\ narrowed.v[1] = <<"-", "1">>

-----------------------------------------------------------------------------
(* C20 *)

\* the accessor called was the sequence accessor for elements of type tn
NarrowedToVecOf(tn) == narrowed.acc = VecAccessor(tn)

\* the elements of the sequence value that are not of type tn
FailingElements(tn) == {i \in 1..Len(value.v) : value.v[i].t # tn}

FirstFailing(tn) == CHOOSE i \in FailingElements(tn) : \A j \in FailingElements(tn) : i <= j

\* C20: narrowing to a sequence of X first narrows to the generic sequence
\* and fails with the mismatch error of that narrowing when the value is not
\* a sequence; otherwise the elements are narrowed in order: when all
\* succeed the narrowed elements are returned in the same order, and when
\* one fails the result is the mismatch error of the first failing element,
\* no element after it being narrowed.
C20_SequenceNarrowing ==
    \A tn \in ScalarTypes :
        NarrowedToVecOf(tn) =>
            IF value.t # TN_VEC
            THEN ~narrowed.ok /\ narrowed.err = as_vec(value).err /\ narrowed.seen = 0
            ELSE IF FailingElements(tn) = {}
            THEN /\ narrowed.ok
                 /\ Len(narrowed.v) = Len(value.v)
                 /\ \A i \in 1..Len(value.v) : narrowed.v[i] = value.v[i].v
                 /\ narrowed.seen = Len(value.v)
            ELSE /\ ~narrowed.ok
                 /\ narrowed.err = Element(value.v[FirstFailing(tn)], tn).err
                 /\ narrowed.seen = FirstFailing(tn)

\* a sequence whose first element is not a u64 narrowed with as_u64vec: the
\* fold ended at the first element
C20_Witness ==
    /\ narrowed.acc = "as_u64vec"
    /\ value.t = TN_VEC
    /\ Len(value.v) = MaxVecLen
    /\ value.v[1].t = TN_I64
    /\ value.v[2].t = TN_U64
    /\ ~narrowed.ok
    /\ narrowed.seen = 1

-----------------------------------------------------------------------------
(* C19 *)

\* an invocation (running or suspended) has returned what it returns alone
AsAlone(inv) == inv.pc = "done" => Result(inv.ret, inv.res) \in Alone(inv.raw_args)

\* some invocation of parse_args has begun
Parsing == pc # "build" \/ parked.pc # "build"

\* C19: two invocations of parse_args interleaved step by step on one shared
\* schema do not interfere: no step taken while an invocation has begun
\* changes the schema (name, required list, optional list, keyword map with
\* the defaults), a step of one invocation leaves the cursors, latch and
\* result mapping of the other as they are, and under every interleaving
\* each invocation returns an outcome it returns when run alone.
C19_NoInterference ==
    /\ [][(Parsing \/ pc' # "build") => schema' = schema]_vars
    /\ [][parked' = parked \/ (parked' = Cur /\ Cur' = parked)]_vars
    /\ [](AsAlone(Cur) /\ AsAlone(parked))

\* one invocation returned Ok with a bound value while the other, on a
\* different token vector, stands suspended in the middle of its scan
C19_Witness ==
    /\ pc = "done"
    /\ ret = OkRet
    /\ res # EmptyMap
    /\ parked.pc = "scan"
    /\ parked.pos > 1
    /\ parked.pos < Len(parked.raw_args)
    /\ parked.raw_args # raw_args
    /\ parked.res # EmptyMap

-----------------------------------------------------------------------------
(* C21 *)

SupportedTypes == {TN_STRING, TN_U64, TN_I64, TN_F64}

\* the declaration the scan loop takes the next token(s) for, if any: the
\* pending required positional, else the keyword the token names when a
\* value token follows it, else the open optional positional
ArgTaken ==
    IF required_pos < Len(required_args) THEN Some(required_args[required_pos + 1])
    ELSE IF ToLowercase(raw_args[pos + 1]) \in DOMAIN kwargs
    THEN (IF pos + 1 < Len(raw_args) THEN Some(kwargs[ToLowercase(raw_args[pos + 1])])
          ELSE None)
    ELSE IF do_optional /\ optional_pos < Len(optional_args)
    THEN Some(optional_args[optional_pos + 1])
    ELSE None

\* the scan loop is about to take tokens for a declaration whose type tag is
\* none of the four
TakesUnsupported ==
    /\ pc = "scan"
    /\ pos < Len(raw_args)
    /\ ArgTaken # None
    /\ ArgTaken[1].type_name \notin SupportedTypes

\* C21: whenever parse_args consumes the token(s) supplied for an argument
\* whose declared type tag is none of text, u64, i64, f64, the parse fails
\* with "<type> is not a supported type", for scalar declarations and for
\* sequence declarations of every length.
C21_UnsupportedDetected ==
    [][TakesUnsupported =>
          (pc' = "done" /\ ret' = ErrUnsupported(ArgTaken[1].type_name))]_vars

-----------------------------------------------------------------------------
(* C22 *)

\* two declarations agree in name, Positional/Named kind, type tag, shape and
\* presence of a default
DeclsAgree(a, b) ==
    /\ a.arg = b.arg
    /\ a.arg_type = b.arg_type
    /\ a.type_name = b.type_name
    /\ a.kind = b.kind
    /\ (Len(a.default) = 0) = (Len(b.default) = 0)

ListsAgree(l1, l2) == Len(l1) = Len(l2) /\ \A i \in 1..Len(l1) : DeclsAgree(l1[i], l2[i])

MapsAgree(m1, m2) == DOMAIN m1 = DOMAIN m2 /\ \A k \in DOMAIN m1 : DeclsAgree(m1[k], m2[k])

Compared == eq # None

Equal == eq = Some(TRUE)

\* the Positional and the Named declarations among the calls, in call order
PositionalOf(calls) == SelectSeq(calls, LAMBDA d : d.arg_type = "Arg")
NamedOf(calls) == SelectSeq(calls, LAMBDA d : d.arg_type = "Kwarg")

\* t holds the entries of s in some order
Reordered(s, t) ==
    /\ Len(s) = Len(t)
    /\ \E f \in Permutations(1..Len(s)) : \A i \in 1..Len(s) : t[i] = s[f[i]]

SameHeader == lhs.cmd.name = rhs.cmd.name /\ lhs.cmd.desc = rhs.cmd.desc

\* the two Commands were built by calls that differ in nothing but default
\* values and descriptions of arguments
DifferInDefaultsOrDescriptions == SameHeader /\ ListsAgree(lhs.added, rhs.added)

\* the two Commands were built by calls that differ in nothing but the order
\* of the Named declarations
DifferInNamedOrder ==
    /\ SameHeader
    /\ PositionalOf(lhs.added) = PositionalOf(rhs.added)
    /\ Reordered(NamedOf(lhs.added), NamedOf(rhs.added))

\* no two Named declarations among the calls share a name
NamedDistinct(calls) ==
    \A i, j \in 1..Len(calls) :
        (i # j /\ calls[i].arg_type = "Kwarg" /\ calls[j].arg_type = "Kwarg")
            => calls[i].arg # calls[j].arg

\* the claim as stated: the command name, the two lists and the keyword map
\* decide equality, whatever names the Named declarations have
C22_AsStated ==
    Compared =>
        /\ Equal = /\ lhs.cmd.name = rhs.cmd.name
                   /\ ListsAgree(lhs.cmd.required_args, rhs.cmd.required_args)
                   /\ ListsAgree(lhs.cmd.optional_args, rhs.cmd.optional_args)
                   /\ MapsAgree(lhs.cmd.kwargs, rhs.cmd.kwargs)
        /\ DifferInDefaultsOrDescriptions => Equal
        /\ DifferInNamedOrder => Equal

\* C22: two schemas are equal exactly when their command names and command
\* descriptions are equal, their required lists and their optional lists
\* agree element by element in order and their keyword maps agree key by
\* key, two declarations agreeing when name, Positional/Named kind, type
\* tag, shape and presence of a default agree; schemas that differ only in
\* default values or descriptions of arguments are equal, and schemas built
\* by add_arg calls that differ only in the order of Named declarations of
\* pairwise distinct names are equal.
C22_SchemaEquality ==
    Compared =>
        /\ Equal = /\ lhs.cmd.name = rhs.cmd.name
                   /\ lhs.cmd.desc = rhs.cmd.desc
                   /\ ListsAgree(lhs.cmd.required_args, rhs.cmd.required_args)
                   /\ ListsAgree(lhs.cmd.optional_args, rhs.cmd.optional_args)
                   /\ MapsAgree(lhs.cmd.kwargs, rhs.cmd.kwargs)
        /\ DifferInDefaultsOrDescriptions => Equal
        /\ (DifferInNamedOrder /\ NamedDistinct(lhs.added)) => Equal

\* two schemas found equal whose Named declarations were added in opposite
\* orders
C22_Witness ==
    /\ Equal
    /\ Len(lhs.added) = 2
    /\ NamedOf(lhs.added) = lhs.added
    /\ lhs.added[1] # lhs.added[2]
    /\ rhs.added = <<lhs.added[2], lhs.added[1]>>

-----------------------------------------------------------------------------
(* C23 *)

\* this step fills an optional positional
FillsOptional == pc = "scan" /\ optional_pos' = optional_pos + 1

\* C23: keyword lookup is tried before optional-positional matching: a step
\* fills an optional positional only from a token that is no keyword name,
\* with every required positional filled, the latch open and optional_pos
\* below the length of the optional list, so a token equal to a keyword name
\* is never stored as the value of an optional positional.
C23_KeywordBeforeOptional ==
    [][FillsOptional =>
          /\ raw_args[pos + 1] \notin DOMAIN kwargs
          /\ required_pos = Len(required_args)
          /\ do_optional
          /\ optional_pos < Len(optional_args)
          /\ res'[optional_args[optional_pos + 1].arg].v \notin DOMAIN kwargs]_vars

-----------------------------------------------------------------------------
(* C24 *)

\* the defaults the post-scan check is about to unwrap: those of the
\* optional positionals whose name the result lacks, and those of the
\* keywords the result will still lack that passed the is_none test
ToUnwrap ==
    LET opt == {i \in 1..Len(optional_args) : optional_args[i].arg \notin DOMAIN res}
        filled == DOMAIN res \cup {optional_args[i].arg : i \in opt}
    IN  {optional_args[i].default : i \in opt}
            \cup {kwargs[k].default : k \in {x \in DOMAIN kwargs \ filled : Len(kwargs[x].default) > 0}}

\* C24: after any sequence of add_arg calls on a schema created by
\* Command::new, every declaration in the required list is Positional with
\* no default, every declaration in the optional list is Positional with a
\* default, and every entry of the keyword map is a Named declaration
\* stored under its own name; hence no default the post-scan check unwraps
\* is missing.
C24_SchemaInvariant ==
    /\ \A i \in 1..Len(required_args) :
          required_args[i].arg_type = "Arg" /\ Len(required_args[i].default) = 0
    /\ \A i \in 1..Len(optional_args) :
          optional_args[i].arg_type = "Arg" /\ Len(optional_args[i].default) = 1
    /\ \A k \in DOMAIN kwargs : kwargs[k].arg_type = "Kwarg" /\ kwargs[k].arg = k
    /\ pc = "check" => \A d \in ToUnwrap : Len(d) = 1

\* the post-scan check is about to unwrap the default of an optional
\* positional and that of a keyword, on a schema with a required positional
C24_Witness ==
    /\ pc = "check"
    /\ Len(required_args) = 1
    /\ Len(optional_args) = 1
    /\ Cardinality(DOMAIN kwargs) = 1
    /\ Cardinality(ToUnwrap) = 2

-----------------------------------------------------------------------------
(* C25 *)

\* the scan loop takes the token at pos + 1 as the name of a keyword
TakesKeywordName ==
    required_pos = Len(required_args) /\ ToLowercase(raw_args[pos + 1]) \in DOMAIN kwargs

\* index of the first token of the value the step reads
ValueStart == IF TakesKeywordName THEN pos + 2 ELSE pos + 1

\* what each token a step takes for declaration d is consumed as, in stream
\* order
RolesTaken(d) ==
    (IF TakesKeywordName THEN <<"keyword name">> ELSE <<>>)
        \o (IF d.kind = "Unit" THEN <<"scalar value">>
            ELSE <<"sequence length">> \o [j \in 1..LenTok(ValueStart) |-> "sequence element"])

\* C25: in a successful parse every token of the input is consumed exactly
\* once and in stream order: the first as the command name, and by each
\* iteration of the scan loop the next tokens, one per role, as a keyword
\* name, a scalar value, a sequence length or a sequence element, the value
\* stored being read from exactly those tokens; when Ok is returned no token
\* is left unread.
C25_TokenAccounting ==
    /\ [](Succeeded => pos = Len(raw_args))
    /\ [][(pc = "build" /\ pc' = "scan") => (pos' = 1 /\ EqIgnoreCase(raw_args'[1], name))]_vars
    /\ [][(pc = "scan" /\ pc' = "scan") =>
            /\ ArgTaken # None
            /\ pos' = pos + Len(RolesTaken(ArgTaken[1]))
            /\ pos' <= Len(raw_args)
            /\ res' = Insert(res, ArgTaken[1].arg, GroupValue(ArgTaken[1], ValueStart))]_vars

\* a successful parse of four tokens taken as the command name, a keyword
\* name, a sequence length and a sequence element
C25_Witness ==
    /\ Succeeded
    /\ Len(raw_args) = MaxArgTokens + 1
    /\ required_args = <<>>
    /\ optional_args = <<>>
    /\ \E k \in DOMAIN kwargs :
          /\ kwargs[k].kind = "Vec"
          /\ k = ToLowercase(raw_args[2])
          /\ res[k] = GroupValue(kwargs[k], 3)
          /\ Len(res[k].v) = 1

-----------------------------------------------------------------------------
(* C26 *)

\* the tokens of the value a step reads, the length token of a sequence
\* aside: the value token of a scalar, the n tokens after the length
ValueTokens(d) ==
    IF d.kind = "Unit" THEN {ValueStart}
    ELSE {ValueStart + j : j \in 1..LenTok(ValueStart)}

\* the first of those tokens that is not valid for the declared type, 0 when
\* all are valid
FirstInvalid(d) ==
    LET bad == {i \in ValueTokens(d) : ~TokValid(d.type_name, raw_args[i])}
    IN  IF bad = {} THEN 0 ELSE CHOOSE i \in bad : \A j \in bad : i <= j

\* the step reads a value for a declaration, and the tokens its shape asks
\* for remain in the stream
ReadsWholeValue ==
    /\ pc = "scan"
    /\ pos < Len(raw_args)
    /\ ArgTaken # None
    /\ ArgTaken[1].kind = "Vec" => ParseUnsigned(raw_args[ValueStart]).ok
    /\ \A i \in ValueTokens(ArgTaken[1]) : i <= Len(raw_args)

\* C26: the tokens consumed as a keyword's value or as the elements of a
\* sequence are never looked up as keywords: a sequence with length n takes
\* the next n tokens as elements whatever they are, a keyword token among
\* them included; it is stored verbatim in a text sequence and gives the
\* number-parse error in a numeric sequence, the step does not end in
\* WrongArity as long as n tokens remain in the stream, and the tokens of
\* the value neither close the latch nor fill another name.
C26_ValueTokensNotKeywords ==
    [][ReadsWholeValue =>
          LET d == ArgTaken[1]
          IN  /\ ret' # WrongArity
              /\ do_optional' = (do_optional /\ ~TakesKeywordName)
              /\ IF FirstInvalid(d) = 0
                 THEN /\ pc' = "scan"
                      /\ pos' = ValueStart + (IF d.kind = "Unit" THEN 0 ELSE LenTok(ValueStart))
                      /\ res' = Insert(res, d.arg, GroupValue(d, ValueStart))
                      /\ d.type_name = TN_STRING =>
                            \A i \in ValueTokens(d) :
                                IF d.kind = "Unit" THEN res'[d.arg].v = raw_args[i]
                                ELSE res'[d.arg].v[i - ValueStart].v = raw_args[i]
                 ELSE /\ pc' = "done"
                      /\ ret' = ErrInvalidNumber(raw_args[FirstInvalid(d)])
                      /\ pos' = FirstInvalid(d)]_vars

\* a text sequence of length 2 took a keyword's name as its second element:
\* the parse succeeded with the name stored verbatim and the latch open
C26_Witness ==
    /\ Succeeded
    /\ do_optional
    /\ Len(required_args) = 1
    /\ required_args[1].kind = "Vec"
    /\ required_args[1].type_name = TN_STRING
    /\ Len(raw_args) = 4
    /\ ToLowercase(raw_args[4]) \in DOMAIN kwargs
    /\ res[required_args[1].arg] = Val(TN_VEC, <<Val(TN_STRING, raw_args[3]), Val(TN_STRING, raw_args[4])>>)

-----------------------------------------------------------------------------
(* C27 *)

\* the step takes the name of a keyword that was given before, with a valid
\* value after it
RepeatsKeyword ==
    /\ pc = "scan"
    /\ pos + 1 < Len(raw_args)
    /\ TakesKeywordName
    /\ ~do_optional
    /\ ToLowercase(raw_args[pos + 1]) \in DOMAIN res
    /\ ValidGroup(kwargs[ToLowercase(raw_args[pos + 1])], pos + 2)

\* C27: when the same keyword appears more than once in the token stream, no
\* error is raised for the repetition: each later occurrence replaces the
\* value stored under the keyword's name and changes no other entry, so on
\* success the result maps the name to the value of its last occurrence; a
\* required or optional positional is filled at most once per parse: a step
\* that fills a positional slot moves the cursor past it, and no step moves
\* a cursor back.
C27_LastOccurrenceWins ==
    /\ [][RepeatsKeyword =>
            LET k == ToLowercase(raw_args[pos + 1])
            IN  /\ pc' = "scan"
                /\ ret' = Pending
                /\ DOMAIN res' = DOMAIN res
                /\ res'[k] = GroupValue(kwargs[k], pos + 2)
                /\ \A n \in DOMAIN res \ {k} : res'[n] = res[n]]_vars
    /\ [](Succeeded =>
            \A k \in DOMAIN KwSupplied : res[k] = GroupValue(kwargs[k], KwSupplied[k]))
    /\ [][pc = "scan" =>
            /\ required_pos' \in {required_pos, required_pos + 1}
            /\ optional_pos' \in {optional_pos, optional_pos + 1}
            /\ (pc' = "scan" /\ ~TakesKeywordName) =>
                  required_pos' + optional_pos' = required_pos + optional_pos + 1
            /\ (pos < Len(raw_args) /\ TakesKeywordName) =>
                  (required_pos' = required_pos /\ optional_pos' = optional_pos)]_vars

\* a successful parse of a stream that names one keyword twice with
\* different values: the result holds the second
C27_Witness ==
    /\ Succeeded
    /\ Len(raw_args) = 5
    /\ raw_args[2] = raw_args[4]
    /\ raw_args[3] # raw_args[5]
    /\ ToLowercase(raw_args[2]) \in DOMAIN kwargs
    /\ res[ToLowercase(raw_args[2])] = Val(TN_STRING, raw_args[5])

-----------------------------------------------------------------------------
(* C28 *)

InScan == pc \in {"scan", "check"}

\* the names of the first n declarations of a list
FirstNames(args, n) == {args[i].arg : i \in 1..n}

\* the names the positional slots passed so far stand for
PositionalFilled ==
    FirstNames(required_args, required_pos) \cup FirstNames(optional_args, optional_pos)

\* C28: in every state of the scan loop 0 <= required_pos <= number of
\* required positionals and 0 <= optional_pos <= number of optional
\* positionals; optional_pos > 0 or a closed latch implies that required_pos
\* equals the number of required positionals; the names filled so far from
\* positional slots are exactly the first required_pos required names and
\* the first optional_pos optional names; each cursor only increases, by one
\* with each slot filled, and the latch never goes from closed back to open.
C28_CursorInvariants ==
    /\ [](InScan =>
            /\ 0 <= required_pos /\ required_pos <= Len(required_args)
            /\ 0 <= optional_pos /\ optional_pos <= Len(optional_args)
            /\ (optional_pos > 0 \/ ~do_optional) => required_pos = Len(required_args)
            /\ PositionalFilled \subseteq DOMAIN res
            /\ (DOMAIN res) \ (DOMAIN kwargs) \subseteq PositionalFilled)
    /\ [][pc = "scan" =>
            /\ required_pos' - required_pos \in {0, 1}
            /\ optional_pos' - optional_pos \in {0, 1}
            /\ required_pos' = required_pos + 1 =>
                  /\ pc' = "scan"
                  /\ optional_pos' = optional_pos
                  /\ DOMAIN res' = DOMAIN res \cup {required_args[required_pos + 1].arg}
            /\ optional_pos' = optional_pos + 1 =>
                  /\ pc' = "scan"
                  /\ required_pos' = required_pos
                  /\ DOMAIN res' = DOMAIN res \cup {optional_args[optional_pos + 1].arg}
            /\ ~do_optional => ~do_optional']_vars

\* the scan has ended with a required and an optional positional filled and
\* the latch closed by a keyword
C28_Witness ==
    /\ pc = "check"
    /\ Len(required_args) = 1
    /\ required_pos = 1
    /\ Len(optional_args) = 1
    /\ optional_pos = 1
    /\ ~do_optional
    /\ Cardinality(DOMAIN res) = 3

====
